---- MODULE Spec2Model ----
(***************************************************************************)
(* ClipMontage client-side highlight pipeline.                             *)
(*                                                                         *)
(* The program is single-threaded JavaScript: one step of the model is one *)
(* macrotask (a media event, a timer, an HTTP response, a user click)      *)
(* together with every microtask continuation it triggers, i.e. the code   *)
(* that runs from one external await to the next.                          *)
(*                                                                         *)
(* Units: wall-clock quantities are milliseconds. Media positions and      *)
(* durations are ticks of 1/64 s (10 s is 640). The program computes on    *)
(* IEEE doubles; positions that are whole ticks are doubles without error, *)
(* as are their sums, differences and halves, so that on them the integer  *)
(* arithmetic below is the arithmetic of the program. The frames of a run  *)
(* are sampled at the multiples of 10 s (new FrameExtractor() keeps the    *)
(* default interval), the director adds whole seconds to them and halves   *)
(* sums, so the positions a run computes are whole ticks; the positions    *)
(* handed to the helpers called on their own are multiples of 1/16 s, so   *)
(* that two halvings leave whole ticks. A position that is not a multiple  *)
(* of a power of 1/2 s (19.84 s) is outside the model: the double that     *)
(* stands for it is not the position, and the comparisons of the program   *)
(* decide on the double. Excitement is in 1/200 of a point, confidence in  *)
(* percent.                                                                *)
(***************************************************************************)
EXTENDS Integers, Sequences, FiniteSets, TLC

\* ---------------------------------------------------------------------
\* Program constants
\* ---------------------------------------------------------------------
MaxRetries == 3
InitialBackoff == 2000
Concurrency == 1
RequestDelay == 2000
ColdStartTimeout == 120000
ColdStartRetryDelay == 20000
AllModelsBackoff == 60000
PollInterval == 200
Models == <<"Qwen2.5-VL-7B", "Llama-3.2-11B-Vision", "Mistral-Small-3.1-24B">>
TotalModels == Len(Models)
Interval == 640
MaxFrames == 60
MinClamped == 32
TargetDuration == 11520
MinClipLength == 192
MaxClipLength == 960
TimeWindow == 640
HookHalf == 96

\* ---------------------------------------------------------------------
\* Bounds of the exploration
\* ---------------------------------------------------------------------
\* media durations explored: 0 (undeterminable), 0.25 s, and 10 s .. 10*MaxDurationTens s
MaxDurationTens == 1
\* number of direct analyzeFrame calls each outside caller may make
MaxDirectCalls == 2
\* failing HTTP exchanges (non-2xx, empty body, timeout) the vision API may produce
\* during one pipeline run, and while outside callers share a client
MaxFaults == 3
MaxFaultsDirect == 1
\* frames of free outcome at the end of a batch handed to direct()
MaxTailFrames == 2
\* seed clips in a list handed to mergeOverlappingClips
MaxSeeds == 3
\* clips after the leading ones in a list handed to trimToTargetDuration
MaxTrimTail == 3
\* clips in a list handed to optimizePacing
MaxPaced == 5
\* frames of a batch analyzed as intense, each of them giving one clip
MaxIntenseFrames == 9
\* pipelines the page creates
MaxRuns == 3

Durations == {0, 16} \cup {Interval * k : k \in 1..MaxDurationTens}
\* latency of an HTTP exchange: fast (one polling period) or at least the request spacing
Latencies == {PollInterval, RequestDelay}
\* time the body of a response takes once its status arrived: none, or a polling period
BodyLatencies == {0, PollInterval}
\* callers of HuggingFaceClient.analyzeFrame: the batch loop and outside callers
DirectCallers == {"d1", "d2"}
Callers == {"batch"} \cup DirectCallers

\* ---------------------------------------------------------------------
\* Messages
\* ---------------------------------------------------------------------
MsgAuthMissing == "HuggingFace API token is required. Please set it in Settings."
MsgAuthInvalid == "Invalid HuggingFace API token. Please check your token in Settings."
MsgRateLimited == "Rate limited (429)"
MsgLoading == "Model loading (503)"
MsgTimeout == "Request timed out (cold start may take longer)"
\* `HuggingFace API error ${resp.status}: ${errBody}` with two bodies a server may send
MsgHttpError == "HuggingFace API error 500: Internal Server Error"
MsgHttpCancelled == "HuggingFace API error 500: upstream request cancelled"
\* the rejection of resp.text() or resp.json() on a body that cannot be read
MsgUnreadable == "Unexpected end of JSON input"
MsgEmpty == "Empty response from HuggingFace"
MsgParse == "TypeError: Cannot read properties of null"
MsgReader == "FileReader error"
MsgCancelled == "Cancelled"
MsgAnalysisCancelled == "Analysis cancelled"
MsgExtractionCancelled == "Frame extraction cancelled"
MsgAssemblyCancelled == "Assembly cancelled"
MsgLoadVideo == "Failed to load video"
MsgNoDuration == "Cannot determine video duration"
MsgSeekFailed == "Seek failed"
MsgNoFrames == "No frames could be extracted from the video"
MsgAllFailed == "All frame analyses failed. API error: "
MsgNoHighlights == "No highlights detected in the video. Try with more action-packed footage."
MsgNotLoaded == "FFmpeg not loaded. Call load() first."
MsgNoClips == "No clips to assemble"
\* rejections of the ffmpeg toolchain: the text is the toolchain's own
MsgToolchain == "ffmpeg toolchain error"
MsgToolchainCancelled == "ffmpeg toolchain error: operation cancelled"
MsgInvalidRange == "endSeconds must be > startSeconds"
\* the message of an Error that a callback handed to the constructor raises
MsgCallbackRaised == "onComplete raised"
MsgCallbackCancelled == "onComplete raised: download cancelled"
NoError == ""

\* an Error object: its message is text followed by detail
Err(text, detail) == [text |-> text, detail |-> detail]

\* the messages above in which the substring 'cancelled' occurs ('Cancelled' has none)
WithCancelled ==
    {MsgAnalysisCancelled, MsgExtractionCancelled, MsgAssemblyCancelled, MsgHttpCancelled,
     MsgToolchainCancelled, MsgCallbackCancelled}

\* String.prototype.includes('cancelled') on the message of an Error: the substring is in
\* the text or in the detail that follows it
includesCancelled(e) == e.text \in WithCancelled \/ e.detail \in WithCancelled

Min(a, b) == IF a < b THEN a ELSE b
Max(a, b) == IF a > b THEN a ELSE b
Abs(a) == IF a < 0 THEN 0 - a ELSE a
Pow2(n) == IF n = 0 THEN 1 ELSE IF n = 1 THEN 2 ELSE IF n = 2 THEN 4 ELSE 8

\* ---------------------------------------------------------------------
\* State
\* ---------------------------------------------------------------------
VARIABLES
    pipeline,    \* ProcessingPipeline: position of run(), _cancelled, results
    extractor,   \* FrameExtractor: _cancelled, the loop of extractFrames
    client,      \* HuggingFaceClient fields
    batch,       \* locals of analyzeFramesBatch
    calls,       \* locals of each analyzeFrame call in progress, per caller
    assembler,   \* VideoAssembler: _loaded, _cancelled, the loop of assemble
    obs,         \* observations of the run: callbacks, requests, clock ages
    director,    \* CreativeDirector and its helpers called on their own: input and output
    page         \* the page: Router.currentView, activePipeline, the pipelines it created

vars == <<pipeline, extractor, client, batch, calls, assembler, obs, director, page>>

World == [pipeline |-> pipeline, extractor |-> extractor, client |-> client,
          batch |-> batch, calls |-> calls, assembler |-> assembler, obs |-> obs]

Commit(w) ==
    /\ pipeline' = w.pipeline
    /\ extractor' = w.extractor
    /\ client' = w.client
    /\ batch' = w.batch
    /\ calls' = w.calls
    /\ assembler' = w.assembler
    /\ obs' = w.obs
    /\ director' = director
    /\ page' = page

NoResult == [timestamp |-> -1, error |-> NoError, profile |-> "none", modelUsed |-> ""]

\* one analyzeFrame call: position, locals of _sendWithFallback, pending timer (ms left),
\* and what it did so far (requests issued, models that answered 429 since the round
\* counter was last reset); made counts the calls this caller completed
IdleCall == [pc |-> "idle", attempt |-> 0, modelsTriedInRound |-> 0, lastError |-> NoError,
             model |-> "", timer |-> 0, requests |-> 0, limited |-> {}, lastFault |-> "none",
             status |-> "none", made |-> 0]

\* what the latest step did: the HTTP response it handled, whether it started a request
\* (and how long after the previous start), and how an analyzeFrame call settled in it
NoStep == [caller |-> "", response |-> "none", started |-> FALSE, gap |-> 0,
           settled |-> "none", error |-> NoError, model |-> "", frame |-> -1,
           requests |-> 0, limited |-> {}, lastFault |-> "none"]

\* new HuggingFaceClient(apiKey): Date.now() - _lastRequestTime is far above requestDelay
NewClient == [exists |-> TRUE, cancelled |-> FALSE, currentModelIndex |-> 0,
              activeRequests |-> 0, sinceLastRequest |-> RequestDelay]

NoClient == [exists |-> FALSE, cancelled |-> FALSE, currentModelIndex |-> 0,
             activeRequests |-> 0, sinceLastRequest |-> RequestDelay]

\* new ProcessingPipeline({apiKey, onComplete, ...}); onCompleteRaises is the message of
\* the Error the onComplete callback it was given raises when it is called, NoError when
\* the callback returns
InitPipeline(key) ==
    [pc |-> "idle", apiKey |-> key, cancelled |-> FALSE, onCompleteRaises |-> NoError,
     resultBlob |-> "null", resultStats |-> "null",
     analyses |-> <<>>, validAnalyses |-> <<>>, clips |-> <<>>, hookClip |-> <<>>]

InitExtractor ==
    [cancelled |-> FALSE, duration |-> 0, totalFrames |-> 0, i |-> 0, frames |-> <<>>,
     urlOpen |-> FALSE]

InitBatch == [active |-> FALSE, returned |-> FALSE, i |-> 0, total |-> 0, completed |-> 0,
              results |-> <<>>]

InitAssembler ==
    [loaded |-> FALSE, cancelled |-> FALSE, imports |-> 0, i |-> 0, ordered |-> <<>>,
     cuts |-> <<>>, manifest |-> <<>>, concats |-> 0, files |-> {}, cleanup |-> <<>>]

\* no call of the director or its helpers was made: op is the method called last, clips
\* and analyses its input, out its return value, results the return values of direct(),
\* drawn the number of UUIDs drawn so far
\* NaN as the value of a QualityScore: a number below every value a QualityScore is built
\* from
NaN == -1000

\* a >= b and a < b for values either of which may be NaN: false when one of them is
geq(a, b) == a # NaN /\ b # NaN /\ a >= b
less(a, b) == a # NaN /\ b # NaN /\ a < b

\* new QualityScore(value).value: Math.max(0, Math.min(100, value)), NaN for NaN
QualityScoreValue(value) == IF value = NaN THEN NaN ELSE Max(0, Min(100, value))

\* QualityScore.grade of a clamped value
grade(value) ==
    IF value >= 90 THEN "A"
    ELSE IF value >= 80 THEN "B"
    ELSE IF value >= 70 THEN "C"
    ELSE IF value >= 60 THEN "D"
    ELSE "F"

\* getQualityGrade(score) of the result view
getQualityGrade(score) ==
    IF score >= 90 THEN "A"
    ELSE IF score >= 75 THEN "B"
    ELSE IF score >= 60 THEN "C"
    ELSE IF score >= 40 THEN "D"
    ELSE IF score >= 20 THEN "E"
    ELSE "F"

\* the page after showApp(): the dashboard, no pipeline, no result; hasKey tells whether
\* localStorage holds hf_api_key; runs[p] is the pipeline the page created p-th, and 0
\* stands for null; cardShown tells whether DashboardView.init rendered the project card;
\* firebase whether firebaseAuth is set, signingOut whether its signOut() is pending,
\* landing whether showLanding() has replaced the app shell
InitPage(hasKey) ==
    [currentView |-> "dashboard", hasKey |-> hasKey, selectedFile |-> FALSE,
     activePipeline |-> 0, lastResult |-> 0, runs |-> <<>>, intruded |-> FALSE,
     cardShown |-> FALSE, firebase |-> FALSE, signingOut |-> FALSE, landing |-> FALSE]

InitDirection ==
    [kind |-> "none", op |-> "none", clips |-> <<>>, analyses |-> <<>>, out |-> <<>>,
     results |-> <<>>, drawn |-> 0, value |-> 0]

InitObs(faults) ==
    [faultsLeft |-> faults, stages |-> <<>>, lastProgress |-> 0, events |-> {},
     completeCalls |-> 0, errors |-> <<>>, lateProgress |-> FALSE, regressed |-> FALSE,
     cancelCalled |-> FALSE, cancelLogged |-> FALSE, execFailed |-> FALSE,
     sinceLastStart |-> RequestDelay, authSeen |-> FALSE, raised |-> "none",
     step |-> NoStep]

\* ---------------------------------------------------------------------
\* ProcessingPipeline: callbacks and the catch block of run()
\* ---------------------------------------------------------------------
\* Math.round(num / den) for non-negative operands
Round(num, den) == (2 * num + den) \div (2 * den)

\* Math.round((current / total) * 100) for 1 <= current <= total <= maxFrames: the double
\* (23 / 40) * 100 is 57.49999999999999, every other product rounds as the exact ratio
Percent(current, total) ==
    IF 40 * current = 23 * total THEN 57 ELSE Round(current * 100, total)

\* Math.round(percent * 0.35) for an integer percent of 0..100: the double 90 * 0.35 is
\* 31.499999999999996, every other product rounds as the exact one
Scale35(percent) == IF percent = 90 THEN 31 ELSE Round(percent * 35, 100)

\* _updateProgress(stage, percent, message) -> onProgress; events holds every pair of
\* stage and progress that onProgress was called with
updateProgress(w, stage, percent) ==
    [w EXCEPT !.obs.stages = IF Len(@) > 0 /\ @[Len(@)] = stage THEN @ ELSE Append(@, stage),
              !.obs.lastProgress = percent,
              !.obs.events = @ \cup {<<stage, percent>>},
              !.obs.lateProgress = @ \/ w.obs.completeCalls + Len(w.obs.errors) > 0,
              !.obs.regressed = @ \/ percent < w.obs.lastProgress]

\* catch (err) of run(): a cancellation is only logged, anything else goes to onError
runCatch(w, e) ==
    IF (e.text = MsgCancelled /\ e.detail = NoError) \/ includesCancelled(e)
    THEN [w EXCEPT !.pipeline.pc = "done", !.obs.cancelLogged = TRUE]
    ELSE [w EXCEPT !.pipeline.pc = "done", !.obs.errors = Append(@, e)]

\* ---------------------------------------------------------------------
\* VideoAssembler and the end of run()
\* ---------------------------------------------------------------------
\* the awaits of VideoAssembler.load() that precede `await this._ffmpeg.load(...)`
ImportAwaits == 5

\* exit statuses an ffmpeg.exec may resolve with: success or failure
ExitCodes == {0, 1}

ClipFile(i) == <<"clip", i>>
InputFile == <<"input", 0>>
ListFile == <<"concat.txt", 0>>
OutputFile == <<"output", 0>>

\* sum of the durations of the clips
RECURSIVE SumDurations(_)
SumDurations(clips) ==
    IF Len(clips) = 0 THEN 0
    ELSE Head(clips).end - Head(clips).start + SumDurations(Tail(clips))

\* an excitementScore that is a number, and one that is a string: the value of
\* `excitement` is a string once a property that the table inherits from Object.prototype
\* was added to it
Num(n) == [number |-> n, text |-> ""]
Str(t) == [number |-> 0, text |-> t]

\* v >= n and v > n for an excitementScore v and a number n: a string that is no numeral
\* converts to NaN, which compares false
atLeast(v, n) == v.text = "" /\ v.number >= n
above(v, n) == v.text = "" /\ v.number > n

\* FrameAnalysis.excitementScore: the constructor default 0 on an object that was built
\* without one (fromApiResponse passes none)
storedExcitement(a) == IF "excitementScore" \in DOMAIN a THEN a.excitementScore ELSE Num(0)

\* excitementScores.reduce((s, v) => s + v, 0) of scores that are numbers
RECURSIVE SumExcitement(_)
SumExcitement(analyses) ==
    IF Len(analyses) = 0 THEN 0
    ELSE storedExcitement(Head(analyses)).number + SumExcitement(Tail(analyses))

\* Math.round((avgExcitement / 50) * 100) for avgExcitement = sum / (200 * n): the doubles
\* (7.25 / 50) * 100, (14.25 / 50) * 100, (28.25 / 50) * 100 and (28.75 / 50) * 100 fall
\* just below 14.5, 28.5, 56.5 and 57.5 and round down; every other product of an average
\* below 50 rounds as the exact one. The scores are multiples of 1/8 of a point, as those
\* of the confidences 0, 25, 50 and 100 % are: their doubles, and the sums of them, are
\* exact
Retention(sum, n) ==
    IF 4 * sum \in {29 * 200 * n, 57 * 200 * n, 113 * 200 * n, 115 * 200 * n}
    THEN sum \div (100 * n)
    ELSE Round(sum, 100 * n)

\* ClipScorer.predictEngagement without overallScore, whose term _stdev(clipLengths) is
\* the square root of a quotient and no integer of the unit: avgExcitement is kept as the
\* sum and the number of the positive scores it is the quotient of (excitement in 1/200
\* of a point, as excitementScore gives it), a score that is a string is not above 0;
\* watchTimeMinutes = totalDuration / 60 is kept in ticks, 3840 of them a minute
predictEngagement(clips, analyses) ==
    LET excitementScores == SelectSeq(analyses, LAMBDA a : above(storedExcitement(a), 0))
        sum == SumExcitement(excitementScores)
        n == Len(excitementScores)
    IN IF Len(clips) = 0
       THEN [excitementSum |-> 0, excitementCount |-> 0,
             retentionPrediction |-> 0, clickThroughRate |-> 0, watchTimeMinutes |-> 0]
       ELSE [excitementSum |-> sum, excitementCount |-> n,
             retentionPrediction |-> IF n > 0 THEN Min(100, Retention(sum, n)) ELSE 0,
             clickThroughRate |-> IF n > 0 THEN Min(15, Round(sum, 1000 * n)) ELSE 0,
             watchTimeMinutes |-> SumDurations(clips)]

\* run(): the final stats (size, wall-clock time and the square-root term of the
\* quality score are left out)
finalStats(clampedClips, hookClip, validAnalyses) ==
    [clipCount |-> Len(clampedClips) + Len(hookClip),
     totalDuration |-> SumDurations(clampedClips) + SumDurations(hookClip),
     engagement |-> predictEngagement(clampedClips, validAnalyses)]

\* run(): `this._onComplete(blob, stats)` inside the try block: what the callback raises
\* is caught by the catch block of run()
onComplete(w) ==
    IF w.pipeline.onCompleteRaises # NoError
    THEN runCatch([w EXCEPT !.obs.completeCalls = @ + 1],
                  Err(w.pipeline.onCompleteRaises, NoError))
    ELSE [w EXCEPT !.obs.completeCalls = @ + 1, !.pipeline.pc = "done"]

\* variant of runAfterAssemble that does not look at the cancelled flag after assemble()
runAfterAssemble_noCancelCheck(w) ==
    LET w1 == [w EXCEPT !.pipeline.resultBlob = "blob",
                        !.pipeline.resultStats =
                            finalStats(w.pipeline.clips, w.pipeline.hookClip,
                                       w.pipeline.validAnalyses)]
        w2 == updateProgress(w1, "completed", 100)
    IN onComplete(w2)

\* run(), after `await this._videoAssembler.assemble(...)` resolved with a blob
runAfterAssemble(w) ==
    IF w.pipeline.cancelled THEN runCatch(w, Err(MsgCancelled, NoError))
    ELSE LET w1 == [w EXCEPT !.pipeline.resultBlob = "blob",
                             !.pipeline.resultStats =
                                 finalStats(w.pipeline.clips, w.pipeline.hookClip,
                                            w.pipeline.validAnalyses)]
             w2 == updateProgress(w1, "completed", 100)
         IN onComplete(w2)

\* assemble(): the cut loop head
assembleLoop(w) ==
    IF w.assembler.i < Len(w.assembler.ordered)
    THEN IF w.assembler.cancelled
         THEN runCatch(w, Err(MsgAssemblyCancelled, NoError))
         ELSE LET clip == w.assembler.ordered[w.assembler.i + 1]
              IN [w EXCEPT !.assembler.cuts =
                               Append(@, [file |-> ClipFile(w.assembler.i),
                                          start |-> clip.start,
                                          duration |-> clip.end - clip.start]),
                           !.pipeline.pc = "va_cut"]
    ELSE [w EXCEPT !.pipeline.pc = "va_writeList"]

\* assemble() building its list from the clips alone, the hook left out
assemble_withoutHook(w) ==
    IF ~w.assembler.loaded THEN runCatch(w, Err(MsgNotLoaded, NoError))
    ELSE IF Len(w.pipeline.clips) = 0 THEN runCatch(w, Err(MsgNoClips, NoError))
    ELSE [w EXCEPT !.assembler.cancelled = FALSE,
                   !.assembler.ordered = w.pipeline.clips,
                   !.assembler.i = 0,
                   !.pipeline.pc = "va_buffer"]

\* assemble(): entry, up to `await videoFile.arrayBuffer()`
assemble(w) ==
    IF ~w.assembler.loaded THEN runCatch(w, Err(MsgNotLoaded, NoError))
    ELSE IF Len(w.pipeline.clips) = 0 THEN runCatch(w, Err(MsgNoClips, NoError))
    ELSE [w EXCEPT !.assembler.cancelled = FALSE,
                   !.assembler.ordered = w.pipeline.hookClip \o w.pipeline.clips,
                   !.assembler.i = 0,
                   !.pipeline.pc = "va_buffer"]

\* run(), after `await this._videoAssembler.load(...)`
runAfterLoad(w) ==
    IF w.pipeline.cancelled THEN runCatch(w, Err(MsgCancelled, NoError))
    ELSE assemble(updateProgress(w, "video_generation", 78))
\* ---------------------------------------------------------------------
\* Vision responses and FrameAnalysis.fromApiResponse
\* ---------------------------------------------------------------------
\* the JSON objects a 2xx response may carry, by name, as fromApiResponse reads them
\* (confidence in percent):
\*   "dull"    {}
\*   "intense" {"action_intensity":"very_high"}
\*   "kill"    {"kill_log":true,"kill_count":1,"action_intensity":"high",
\*              "match_status":"normal","enemy_visible":true,"enemy_count":1,"confidence":1}
\*   "clutch"  {"action_intensity":"medium","match_status":"clutch","confidence":0.5}
\*   "calm"    {"action_intensity":"medium","match_status":"normal","enemy_visible":true,
\*              "enemy_count":3,"confidence":1}
\*   "odd"     {"kill_log":true,"kill_count":2,"action_intensity":"extreme"}
\*   "inherited" {"action_intensity":"constructor","match_status":"clutch"}
ProfileFields(p) ==
    LET defaults == [killLog |-> FALSE, killCount |-> 0, actionIntensity |-> "low",
                     matchStatus |-> "unknown", enemyVisible |-> FALSE, enemyCount |-> 0,
                     confidence |-> 0]
    IN CASE p = "intense" -> [defaults EXCEPT !.actionIntensity = "very_high"]
         [] p = "kill" -> [killLog |-> TRUE, killCount |-> 1, actionIntensity |-> "high",
                           matchStatus |-> "normal", enemyVisible |-> TRUE, enemyCount |-> 1,
                           confidence |-> 100]
         [] p = "clutch" -> [defaults EXCEPT !.actionIntensity = "medium",
                                             !.matchStatus = "clutch", !.confidence = 50]
         [] p = "calm" -> [defaults EXCEPT !.actionIntensity = "medium",
                                           !.matchStatus = "normal", !.enemyVisible = TRUE,
                                           !.enemyCount = 3, !.confidence = 100]
         [] p = "odd" -> [defaults EXCEPT !.killLog = TRUE, !.killCount = 2,
                                          !.actionIntensity = "extreme"]
         [] p = "inherited" -> [defaults EXCEPT !.actionIntensity = "constructor",
                                                !.matchStatus = "clutch"]
         [] OTHER -> defaults

\* ---------------------------------------------------------------------
\* HighlightDetector
\* ---------------------------------------------------------------------
\* Array.prototype.sort with a comparator that subtracts the keys of its arguments
\* (keys[k] is the key of s[k]): ascending and stable, so that the element at index i goes
\* to the place that counts the elements of a smaller key and the earlier ones of the same
\* key. Here and below `<<>> \o` in front of a sequence constructor has every element
\* computed at once, as Array.prototype.map does
SortBy(s, keys) ==
    LET place == <<>> \o [i \in 1..Len(s) |->
                     Cardinality({j \in 1..Len(s) :
                                     \/ keys[j] < keys[i]
                                     \/ keys[j] = keys[i] /\ j < i}) + 1]
    IN <<>> \o [k \in 1..Len(s) |-> s[CHOOSE i \in 1..Len(s) : place[i] = k]]

\* the fields of a FrameAnalysis: those of its response profile, or the ones it was
\* constructed with when it carries them itself
fieldsOf(a) == IF "fields" \in DOMAIN a THEN a.fields ELSE ProfileFields(a.profile)

\* the names of the properties an object literal inherits from Object.prototype: looked
\* up in a table (`intensityMap[name] || 0`), such a name gives a function or an object
\* instead of the points of a row
InheritedNames ==
    {"constructor", "__proto__", "hasOwnProperty", "isPrototypeOf", "propertyIsEnumerable",
     "toLocaleString", "toString", "valueOf", "__defineGetter__", "__defineSetter__",
     "__lookupGetter__", "__lookupSetter__"}

\* what `excitement += table[name]` appends for an inherited name: the text of the
\* function, or of Object.prototype itself, as V8 prints it
InheritedText(name) ==
    IF name = "__proto__" THEN "[object Object]"
    ELSE IF name = "constructor" THEN "function Object() { [native code] }"
    ELSE "function " \o name \o "() { [native code] }"

\* the excitement of one frame multiplied by 0.5 + 0.5 * confidence whatever the confidence
excitementScore_alwaysScaled(a) ==
    LET f == fieldsOf(a)
        kills == IF f.killLog
                 THEN 25 + (IF f.killCount >= 3 THEN 15 ELSE IF f.killCount >= 2 THEN 8 ELSE 0)
                 ELSE 0
        intensity == CASE f.actionIntensity = "very_high" -> 25
                       [] f.actionIntensity = "high" -> 18
                       [] f.actionIntensity = "medium" -> 10
                       [] OTHER -> 0
        status == CASE f.matchStatus = "victory" -> 10
                    [] f.matchStatus = "clutch" -> 20
                    [] f.matchStatus = "overtime" -> 12
                    [] f.matchStatus = "defeat" -> -5
                    [] OTHER -> 0
        enemy == IF f.enemyVisible THEN 10 + (IF f.enemyCount >= 3 THEN 5 ELSE 0) ELSE 0
        excitement == kills + intensity + status + enemy
    IN Num(excitement * (100 + f.confidence))

\* analyzeExcitementLevels, one frame: the excitementScore of the FrameAnalysis it builds,
\* in 1/200 of a point, the unit in which excitement * (0.5 + 0.5 * confidence) is a whole
\* number for every confidence that is a whole percentage. With an inherited name for
\* the intensity or the status, `excitement` is a string from that addition on, and every
\* later `+=` appends the digits of its number; the multiplication by the confidence
\* makes NaN of the string, which the FrameAnalysis constructor replaces by 0
\* (`opts.excitementScore || 0`)
excitementScore(a) ==
    LET f == fieldsOf(a)
        kills == IF f.killLog
                 THEN 25 + (IF f.killCount >= 3 THEN 15 ELSE IF f.killCount >= 2 THEN 8 ELSE 0)
                 ELSE 0
        intensity == CASE f.actionIntensity = "very_high" -> 25
                       [] f.actionIntensity = "high" -> 18
                       [] f.actionIntensity = "medium" -> 10
                       [] OTHER -> 0
        status == CASE f.matchStatus = "victory" -> 10
                    [] f.matchStatus = "clutch" -> 20
                    [] f.matchStatus = "overtime" -> 12
                    [] f.matchStatus = "defeat" -> -5
                    [] OTHER -> 0
        enemy == IF f.enemyVisible THEN 10 + (IF f.enemyCount >= 3 THEN 5 ELSE 0) ELSE 0
        excitement == kills + intensity + status + enemy
        statusText == IF f.matchStatus \in InheritedNames THEN InheritedText(f.matchStatus)
                      ELSE ToString(status)
        enemyText == IF ~f.enemyVisible THEN ""
                     ELSE IF f.enemyCount >= 3 THEN "105" ELSE "10"
        text == IF f.actionIntensity \in InheritedNames
                THEN ToString(kills) \o InheritedText(f.actionIntensity) \o statusText
                     \o enemyText
                ELSE ToString(kills + intensity) \o statusText \o enemyText
    IN IF f.actionIntensity \in InheritedNames \/ f.matchStatus \in InheritedNames
       THEN (IF f.confidence > 0 THEN Num(0) ELSE Str(text))
       ELSE IF f.confidence > 0 THEN Num(excitement * (100 + f.confidence))
       ELSE Num(excitement * 200)

\* analyzeExcitementLevels: every analysis copied with its excitementScore
analyzeExcitementLevels(analyses) ==
    <<>> \o [k \in 1..Len(analyses) |->
        LET f == fieldsOf(analyses[k])
        IN [timestamp |-> analyses[k].timestamp, killLog |-> f.killLog,
            killCount |-> f.killCount, actionIntensity |-> f.actionIntensity,
            matchStatus |-> f.matchStatus, enemyVisible |-> f.enemyVisible,
            enemyCount |-> f.enemyCount, confidence |-> f.confidence,
            excitementScore |-> excitementScore(analyses[k])]]

\* _classifyMultiEvent
classifyMultiEvent(count) ==
    IF count >= 5 THEN "ACE"
    ELSE IF count = 4 THEN "QUAD KILL"
    ELSE IF count = 3 THEN "TRIPLE KILL"
    ELSE IF count = 2 THEN "DOUBLE KILL"
    ELSE "KILL"

\* sweep that starts the next window at the kill after the window's first one
RECURSIVE sweepKills_sliding(_, _)
sweepKills_sliding(ts, i) ==
    IF i > Len(ts) THEN <<>>
    ELSE LET inWindow == {j \in (i + 1)..Len(ts) :
                             \A m \in (i + 1)..j : ts[m] - ts[i] <= TimeWindow}
             count == 1 + Cardinality(inWindow)
             j == i + count
         IN (IF count >= 2
             THEN <<[type |-> classifyMultiEvent(count), timestamp |-> ts[i],
                     killCount |-> count, endTimestamp |-> ts[j - 1]]>>
             ELSE <<>>) \o sweepKills_sliding(ts, i + 1)

\* detectMultiEvents: the while loop from index i (1-based) of the sorted kill timestamps
RECURSIVE sweepKills(_, _)
sweepKills(ts, i) ==
    IF i > Len(ts) THEN <<>>
    ELSE LET inWindow == {j \in (i + 1)..Len(ts) :
                             \A m \in (i + 1)..j : ts[m] - ts[i] <= TimeWindow}
             count == 1 + Cardinality(inWindow)
             j == i + count
         IN (IF count >= 2
             THEN <<[type |-> classifyMultiEvent(count), timestamp |-> ts[i],
                     killCount |-> count, endTimestamp |-> ts[j - 1]]>>
             ELSE <<>>) \o sweepKills(ts, j)

\* detectMultiEvents(analyses, timeWindow = 10)
detectMultiEvents(analyses) ==
    LET kills == SelectSeq(analyses, LAMBDA a : a.killLog)
        timestamps == <<>> \o [k \in 1..Len(kills) |-> kills[k].timestamp]
        killTimestamps == SortBy(timestamps, timestamps)
    IN sweepKills(killTimestamps, 1)

\* detectClutchMoments
detectClutchMoments(analyses) ==
    LET clutch == SelectSeq(analyses, LAMBDA a : a.matchStatus = "clutch")
    IN [k \in 1..Len(clutch) |-> [timestamp |-> clutch[k].timestamp, type |-> "clutch",
                                  actionIntensity |-> clutch[k].actionIntensity]]

\* crypto.randomUUID(): a value no earlier call returned; the n-th call of the page
\* returns n
randomUUID(n) == n

\* new Clip({timeRange: new TimeRange(start, end), ...}): the start is floored at 0, and
\* the TimeRange constructor throws unless end > start (ok is FALSE for a range that threw)
Clip(start, end, type, label, priority, score, intensity, id) ==
    [start |-> Max(0, start), end |-> end, ok |-> end > Max(0, start),
     clipType |-> type, label |-> label, priority |-> priority,
     score |-> QualityScoreValue(score), actionIntensity |-> intensity, id |-> id]

\* clip.withAdjustedRange(new TimeRange(start, end))
withAdjustedRange(c, start, end) ==
    [c EXCEPT !.start = Max(0, start), !.end = end, !.ok = c.ok /\ end > Max(0, start)]

\* the loop of mergeOverlappingClips keeping the earlier clip whatever the priorities
RECURSIVE mergeInto_keepsEarlier(_, _)
mergeInto_keepsEarlier(merged, rest) ==
    IF Len(rest) = 0 THEN merged
    ELSE LET current == Head(rest)
             last == merged[Len(merged)]
         IN IF current.start <= last.end
            THEN mergeInto_keepsEarlier([merged EXCEPT ![Len(merged)] =
                                            withAdjustedRange(last, Min(last.start, current.start),
                                                              Max(last.end, current.end))],
                                        Tail(rest))
            ELSE mergeInto_keepsEarlier(Append(merged, current), Tail(rest))

\* the loop of mergeOverlappingClips over the clips sorted by start
RECURSIVE mergeInto(_, _)
mergeInto(merged, rest) ==
    IF Len(rest) = 0 THEN merged
    ELSE LET current == Head(rest)
             last == merged[Len(merged)]
         IN IF current.start <= last.end
            THEN LET keep == IF last.priority >= current.priority THEN last ELSE current
                 IN mergeInto([merged EXCEPT ![Len(merged)] =
                                   withAdjustedRange(keep, Min(last.start, current.start),
                                                     Max(last.end, current.end))],
                              Tail(rest))
            ELSE mergeInto(Append(merged, current), Tail(rest))

\* mergeOverlappingClips folding the clips in the order given, without the sort by start
mergeOverlappingClips_unsorted(clips) ==
    IF Len(clips) = 0 THEN <<>>
    ELSE mergeInto(<<clips[1]>>, Tail(clips))

\* mergeOverlappingClips that sorts by start and merges nothing
mergeOverlappingClips_sortOnly(clips) ==
    IF Len(clips) = 0 THEN <<>>
    ELSE SortBy(clips, <<>> \o [k \in 1..Len(clips) |-> clips[k].start])

\* mergeOverlappingClips(clips)
mergeOverlappingClips(clips) ==
    IF Len(clips) = 0 THEN <<>>
    ELSE LET sorted == SortBy(clips, <<>> \o [k \in 1..Len(clips) |-> clips[k].start])
         IN mergeInto(<<sorted[1]>>, Tail(sorted))

\* the analyses suggestHighlights makes a high_excitement clip of
hotAnalyses(analyses) == SelectSeq(analyses, LAMBDA a : atLeast(a.excitementScore, 5000))

\* suggestHighlights(analyses, multiEvents, clutchMoments); drawn is the number of UUIDs
\* the page drew before the call, every clip constructed draws the next one
suggestHighlights(analyses, multiEvents, clutchMoments, drawn) ==
    LET multi == [k \in 1..Len(multiEvents) |->
                     LET mk == multiEvents[k]
                         endTs == IF mk.endTimestamp # 0 THEN mk.endTimestamp ELSE mk.timestamp
                     IN Clip(Max(0, mk.timestamp - 192), endTs + 192, "multi_kill", mk.type,
                             10, 90, "low", randomUUID(drawn + k))]
        clutch == [k \in 1..Len(clutchMoments) |->
                     Clip(Max(0, clutchMoments[k].timestamp - 320),
                          clutchMoments[k].timestamp + 320, "clutch", "CLUTCH", 9, 80, "low",
                          randomUUID(drawn + Len(multiEvents) + k))]
        hot == hotAnalyses(analyses)
        excited == [k \in 1..Len(hot) |->
                     Clip(Max(0, hot[k].timestamp - 128), hot[k].timestamp + 192,
                          "high_excitement", "INTENSE", 7, 70, "low",
                          randomUUID(drawn + Len(multiEvents) + Len(clutchMoments) + k))]
        pushed == multi \o clutch \o excited
        highlights == SortBy(pushed, <<>> \o [k \in 1..Len(pushed) |-> 0 - pushed[k].priority])
    IN mergeOverlappingClips(highlights)

\* ---------------------------------------------------------------------
\* CompositionPlanner
\* ---------------------------------------------------------------------
\* scoreClips(clips, analyses): the analysis closest to the midpoint (the first one on a
\* tie) gives the score and the intensity. With an inherited name for the intensity,
\* `score += intensityScores[name] || 0` makes a string of the score, and
\* Math.max(0, score) makes NaN of the string
scoreClips(clips, analyses) ==
    <<>> \o [k \in 1..Len(clips) |->
        LET clip == clips[k]
            dist(i) == Abs(2 * analyses[i].timestamp - (clip.start + clip.end))
            closest == analyses[CHOOSE i \in 1..Len(analyses) :
                                   \A j \in 1..Len(analyses) :
                                       /\ dist(i) <= dist(j)
                                       /\ j < i => dist(j) > dist(i)]
            duration == clip.end - clip.start
            fromClosest ==
                IF Len(analyses) = 0 THEN 0
                ELSE (IF closest.killLog THEN 10 ELSE 0)
                     + (CASE closest.actionIntensity = "very_high" -> 8
                          [] closest.actionIntensity = "high" -> 6
                          [] closest.actionIntensity = "medium" -> 4
                          [] closest.actionIntensity = "low" -> 2
                          [] OTHER -> 0)
                     + (IF closest.matchStatus = "victory" THEN 5
                        ELSE IF closest.matchStatus = "clutch" THEN 7 ELSE 0)
            score == fromClosest + (IF duration > MaxClipLength THEN -2
                                    ELSE IF duration < MinClipLength THEN -1 ELSE 0)
        IN [clip EXCEPT !.score = IF Len(analyses) > 0
                                     /\ closest.actionIntensity \in InheritedNames
                                  THEN NaN
                                  ELSE QualityScoreValue(Max(0, score)),
                        !.actionIntensity = IF Len(analyses) = 0 THEN @
                                            ELSE closest.actionIntensity]]

\* length adjustment that extends the short clips and leaves the long ones as they are
adjustClipLengths_keepsLong(clips) ==
    <<>> \o [k \in 1..Len(clips) |->
        LET clip == clips[k]
            duration == clip.end - clip.start
            ext == (MinClipLength - duration) \div 2
        IN IF duration < MinClipLength
           THEN withAdjustedRange(clip, Max(0, clip.start - ext), clip.end + ext)
           ELSE clip]

\* adjustClipLengths(clips): the halves are whole ticks for positions that are multiples
\* of 1/16 s, and for halves of such
adjustClipLengths(clips) ==
    <<>> \o [k \in 1..Len(clips) |->
        LET clip == clips[k]
            duration == clip.end - clip.start
            center == (clip.start + clip.end) \div 2
            half == MaxClipLength \div 2
            ext == (MinClipLength - duration) \div 2
        IN IF duration > MaxClipLength
           THEN withAdjustedRange(clip, Max(clip.start, center - half),
                                  Min(clip.end, center + half))
           ELSE IF duration < MinClipLength
           THEN withAdjustedRange(clip, Max(0, clip.start - ext), clip.end + ext)
           ELSE clip]

\* the loop of trimToTargetDuration admitting a head-slice of any positive length
RECURSIVE trimLoop_anySlice(_, _, _)
trimLoop_anySlice(clips, trimmed, accumulated) ==
    IF Len(clips) = 0 THEN trimmed
    ELSE LET clip == Head(clips)
             duration == clip.end - clip.start
             remaining == TargetDuration - accumulated
         IN IF accumulated + duration <= TargetDuration
            THEN trimLoop_anySlice(Tail(clips), Append(trimmed, clip), accumulated + duration)
            ELSE IF remaining > 0
            THEN Append(trimmed, withAdjustedRange(clip, clip.start, clip.start + remaining))
            ELSE trimmed

\* the loop of trimToTargetDuration
RECURSIVE trimLoop(_, _, _)
trimLoop(clips, trimmed, accumulated) ==
    IF Len(clips) = 0 THEN trimmed
    ELSE LET clip == Head(clips)
             duration == clip.end - clip.start
             remaining == TargetDuration - accumulated
         IN IF accumulated + duration <= TargetDuration
            THEN trimLoop(Tail(clips), Append(trimmed, clip), accumulated + duration)
            ELSE IF remaining >= MinClipLength
            THEN Append(trimmed, withAdjustedRange(clip, clip.start, clip.start + remaining))
            ELSE trimmed

\* trimToTargetDuration(clips)
trimToTargetDuration(clips) ==
    IF Len(clips) = 0 THEN clips
    ELSE IF SumDurations(clips) <= TargetDuration THEN clips
    ELSE trimLoop(clips, <<>>, 0)

\* the while loop of optimizePacing: a medium clip, then a high clip, until both run out
RECURSIVE interleave(_, _)
interleave(high, medium) ==
    IF Len(high) = 0 /\ Len(medium) = 0 THEN <<>>
    ELSE (IF Len(medium) > 0 THEN <<Head(medium)>> ELSE <<>>)
         \o (IF Len(high) > 0 THEN <<Head(high)>> ELSE <<>>)
         \o interleave(IF Len(high) > 0 THEN Tail(high) ELSE <<>>,
                       IF Len(medium) > 0 THEN Tail(medium) ELSE <<>>)

\* optimizePacing putting every high clip before the medium ones
optimizePacing_highsFirst(clips) ==
    IF Len(clips) <= 2 THEN clips
    ELSE LET high == SelectSeq(clips, LAMBDA c : c.actionIntensity \in {"very_high", "high"})
             medium == SelectSeq(clips, LAMBDA c : c.actionIntensity = "medium")
             low == SelectSeq(clips, LAMBDA c : c.actionIntensity = "low")
         IN high \o medium \o SubSeq(low, 1, Min(2, Len(low)))

\* optimizePacing(clips)
optimizePacing(clips) ==
    IF Len(clips) <= 2 THEN clips
    ELSE LET high == SelectSeq(clips, LAMBDA c : c.actionIntensity \in {"very_high", "high"})
             medium == SelectSeq(clips, LAMBDA c : c.actionIntensity = "medium")
             low == SelectSeq(clips, LAMBDA c : c.actionIntensity = "low")
         IN (IF Len(high) > 0 THEN <<high[1]>> \o interleave(Tail(high), medium)
             ELSE interleave(<<>>, medium))
            \o SubSeq(low, 1, Min(2, Len(low)))

\* what Array.prototype.sort makes of the comparator (a, b) => b.score.value -
\* a.score.value called on x and y: a difference that is NaN counts as 0
order(x, y) == IF x.score = NaN \/ y.score = NaN THEN 0 ELSE y.score - x.score

\* the first step of the sort: the run the list starts with, strictly descending (and then
\* reversed in place) when its second element orders before its first, otherwise
\* non-descending; <<work array, length of the run>>
CountAndMakeRun(work) ==
    LET isDescending == order(work[2], work[1]) < 0
        RECURSIVE runLength(_)
        runLength(n) ==
            IF n = Len(work) THEN n
            ELSE LET o == order(work[n + 1], work[n])
                 IN IF (isDescending /\ o >= 0) \/ (~isDescending /\ o < 0) THEN n
                    ELSE runLength(n + 1)
        length == runLength(2)
    IN <<IF isDescending
         THEN [k \in 1..Len(work) |-> IF k <= length THEN work[length + 1 - k] ELSE work[k]]
         ELSE work,
         length>>

\* the second step: the elements after the first `sorted` ones are inserted one by one
\* among those before them, at the place a binary search with the comparator finds
RECURSIVE BinaryInsertionSort(_, _)
BinaryInsertionSort(work, sorted) ==
    IF sorted >= Len(work) THEN work
    ELSE LET pivot == work[sorted + 1]
             RECURSIVE search(_, _)
             search(left, right) ==
                 IF left >= right THEN left
                 ELSE LET mid == left + ((right - left) \div 2)
                      IN IF order(pivot, work[mid + 1]) < 0 THEN search(left, mid)
                         ELSE search(mid + 1, right)
             left == search(0, sorted)
         IN BinaryInsertionSort([k \in 1..Len(work) |->
                                    IF k <= left \/ k > sorted + 1 THEN work[k]
                                    ELSE IF k = left + 1 THEN pivot
                                    ELSE work[k - 1]],
                                sorted + 1)

\* result.sort((a, b) => b.score.value - a.score.value) as V8 (Chrome, Edge, Node)
\* carries it out on a list of fewer than 64 elements, which is one run of its TimSort:
\* descending by score and stable when every score is a number. With a score that is
\* NaN the comparator is not consistent and the order is the one these steps leave. A
\* run sorts at most maxFrames = 60 clips, each of them around a frame of its own
sortByScore(clips) ==
    IF Len(clips) < 2 THEN clips
    ELSE LET run == CountAndMakeRun(clips)
         IN BinaryInsertionSort(run[1], run[2])

\* optimizeClips without the sort by score between the length adjustment and the trim
optimizeClips_noScoreSort(clips, analyses) ==
    LET scored == scoreClips(clips, analyses)
        adjusted == adjustClipLengths(scored)
    IN optimizePacing(trimToTargetDuration(adjusted))

\* optimizeClips(clips, analyses)
optimizeClips(clips, analyses) ==
    LET scored == scoreClips(clips, analyses)
        adjusted == adjustClipLengths(scored)
        sorted == sortByScore(adjusted)
    IN optimizePacing(trimToTargetDuration(sorted))

\* clips.reduce((a, b) => a.score.value >= b.score.value ? a : b) from the accumulator a
\* on: the first clip of maximal score when no score is NaN
RECURSIVE bestOf(_, _)
bestOf(a, rest) ==
    IF Len(rest) = 0 THEN a
    ELSE bestOf(IF geq(a.score, Head(rest).score) THEN a ELSE Head(rest), Tail(rest))

\* createHookIntro(clips): null (<<>>) without clips, else 3 s around the midpoint of the
\* clip the reduce leaves (whole ticks for positions that are multiples of 1/16 s, and
\* for halves of such); drawn is the number of UUIDs the page drew before the call
createHookIntro(clips, drawn) ==
    IF Len(clips) = 0 THEN <<>>
    ELSE LET best == bestOf(Head(clips), Tail(clips))
             mid == (best.start + best.end) \div 2
         IN <<Clip(Max(0, mid - HookHalf), mid + HookHalf, "hook", "HOOK", 0, best.score,
                   "low", randomUUID(drawn + 1))>>

\* ---------------------------------------------------------------------
\* ClipScorer
\* ---------------------------------------------------------------------
SuggestTooLong == "Video is too long. Consider trimming to 3-5 minutes."
SuggestTooMany == "Too many clips. Focus on the best highlights only."
SuggestTooShort == "Video is very short. Consider including more clips."
SuggestLowScores == "Many low-scoring clips detected. Consider raising the quality threshold."
SuggestLowVariety == "Low clip variety. Mix different highlight types for better pacing."
\* a clip scored below this value counts as low-scoring
LowScore == 30

\* suggestImprovements(clips, analyses): 300 s and 30 s are 19200 and 1920 ticks
suggestImprovements(clips) ==
    LET totalDuration == SumDurations(clips)
        lowClips == Len(SelectSeq(clips, LAMBDA c : less(c.score, LowScore)))
        clipTypes == {clips[k].clipType : k \in 1..Len(clips)} \ {""}
    IN (IF totalDuration > 19200 THEN <<SuggestTooLong>> ELSE <<>>)
       \o (IF Len(clips) > 15 THEN <<SuggestTooMany>> ELSE <<>>)
       \o (IF totalDuration < 1920 THEN <<SuggestTooShort>> ELSE <<>>)
       \o (IF 10 * lowClips > 3 * Len(clips) THEN <<SuggestLowScores>> ELSE <<>>)
       \o (IF Cardinality(clipTypes) < 2 /\ Len(clips) > 3 THEN <<SuggestLowVariety>>
           ELSE <<>>)

\* ---------------------------------------------------------------------
\* CreativeDirector
\* ---------------------------------------------------------------------
\* direct(), steps 3 to 5: composition, hook, and the result object
directOptimized(optimized, multiEvents, clutchMoments, drawn) ==
    [clips |-> optimized, hookClip |-> createHookIntro(optimized, drawn),
     suggestions |-> suggestImprovements(optimized),
     multiEvents |-> multiEvents, clutchMoments |-> clutchMoments,
     drawn |-> IF Len(optimized) = 0 THEN drawn ELSE drawn + 1]

\* direct(), step 2 on: highlights from the enhanced analyses and the detected events
directEvents(enhanced, multiEvents, clutchMoments, drawn) ==
    directOptimized(optimizeClips(suggestHighlights(enhanced, multiEvents, clutchMoments, drawn),
                                  enhanced),
                    multiEvents, clutchMoments,
                    drawn + Len(multiEvents) + Len(clutchMoments) + Len(hotAnalyses(enhanced)))

\* direct(), after analyzeExcitementLevels
directEnhanced(enhanced, drawn) ==
    directEvents(enhanced, detectMultiEvents(enhanced), detectClutchMoments(enhanced), drawn)

\* direct(analyses); drawn is the number of UUIDs the page drew before the call
direct(analyses, drawn) ==
    directEnhanced(analyzeExcitementLevels(analyses), drawn)

\* clamp that leaves the end of the clip where the director put it
clampClip_keepsEnd(c, duration) ==
    LET endClamped == c.end
        startKept == 10 * (endClamped - c.start) >= 64
    IN IF ~startKept \/ endClamped - c.start < MinClamped THEN <<>>
       ELSE <<withAdjustedRange(c, Max(0, c.start), endClamped)>>

\* run(): clamp of one clip to the media duration; <<>> stands for null.
\* startClamped = Math.min(c.start, endClamped - 0.1) is c.start when the start lies 0.1 s
\* (64 tenths of a tick) or more before endClamped; when it does not, startClamped is the
\* double of endClamped - 0.1, which is not a whole tick, and the range of 0.1 s it leaves
\* is shorter than 0.5 s: the clip is dropped
clampClip(c, duration) ==
    LET endClamped == Min(c.end, duration)
        startKept == 10 * (endClamped - c.start) >= 64
    IN IF ~startKept \/ endClamped - c.start < MinClamped THEN <<>>
       ELSE <<withAdjustedRange(c, Max(0, c.start), endClamped)>>

RECURSIVE clampClips(_, _)
clampClips(cs, duration) ==
    IF Len(cs) = 0 THEN <<>>
    ELSE clampClip(Head(cs), duration) \o clampClips(Tail(cs), duration)

\* VideoAssembler.load(): already loaded returns at once, else the imports are awaited
load(w) ==
    IF w.assembler.loaded THEN runAfterLoad(w)
    ELSE [w EXCEPT !.pipeline.pc = "va_import", !.assembler.imports = 0]

\* run(): clamp of the hook; <<>> stands for null
clampHook(hookClip, duration) ==
    IF Len(hookClip) = 0 THEN <<>> ELSE clampClip(hookClip[1], duration)

\* run(), from the clamped clips and hook to `await this._videoAssembler.load(...)`;
\* a TimeRange rejected in the clamp is thrown into the catch block
runAfterClamp(w, clampedClips, hookClip) ==
    IF \E k \in 1..Len(clampedClips \o hookClip) : ~(clampedClips \o hookClip)[k].ok
    THEN runCatch(w, Err(MsgInvalidRange, NoError))
    ELSE load(updateProgress(updateProgress([w EXCEPT !.pipeline.clips = clampedClips,
                                                      !.pipeline.hookClip = hookClip],
                                            "clip_detection", 75),
                             "video_generation", 75))

\* run(), after direct() returned (a TimeRange rejected inside direct() is thrown into the
\* catch block)
runAfterDirect(w, directorResult) ==
    IF \E k \in 1..Len(directorResult.clips \o directorResult.hookClip) :
           ~(directorResult.clips \o directorResult.hookClip)[k].ok
    THEN runCatch(w, Err(MsgInvalidRange, NoError))
    ELSE IF Len(directorResult.clips) = 0
    THEN runCatch(updateProgress(w, "clip_detection", 70), Err(MsgNoHighlights, NoError))
    ELSE runAfterClamp(updateProgress(w, "clip_detection", 70),
                       clampClips(directorResult.clips, w.extractor.duration),
                       clampHook(directorResult.hookClip, w.extractor.duration))

\* run(), after `await this._visionClient.analyzeFramesBatch(...)` returned analyses;
\* this call of direct() is the first of the page to draw UUIDs
runAfterBatch(w, analyses) ==
    IF w.pipeline.cancelled THEN runCatch(w, Err(MsgCancelled, NoError))
    ELSE
    LET validAnalyses == SelectSeq(analyses, LAMBDA a : a.error = NoError)
        failedAnalyses == SelectSeq(analyses, LAMBDA a : a.error # NoError)
        w0 == [w EXCEPT !.pipeline.analyses = analyses,
                        !.pipeline.validAnalyses = validAnalyses]
    IN IF Len(validAnalyses) = 0
       THEN runCatch(w0, Err(MsgAllFailed,
                             IF Len(failedAnalyses) > 0 THEN failedAnalyses[1].error
                             ELSE "Unknown error"))
       ELSE runAfterDirect(updateProgress(w0, "clip_detection", 60),
                           direct(validAnalyses, 0))

\* ---------------------------------------------------------------------
\* HuggingFaceClient.analyzeFramesBatch
\* ---------------------------------------------------------------------
\* results[i] = value on a JavaScript array (holes are NoResult)
setIndex(results, i, value) ==
    [k \in 1..Max(Len(results), i + 1) |->
        IF k = i + 1 THEN value ELSE IF k <= Len(results) THEN results[k] ELSE NoResult]

\* new FrameAnalysis({...}) as built by FrameAnalysis.fromApiResponse / by the catch handler
FrameAnalysis(timestamp, error, profile, modelUsed) ==
    [timestamp |-> timestamp, error |-> error, profile |-> profile, modelUsed |-> modelUsed]

\* the onProgress closure run() passes to analyzeFramesBatch
analysisProgress(w, completed, total) ==
    updateProgress(w, "ai_analysis", 25 + Scale35(Percent(completed, total)))

\* .then((result) => {...}) of the per-frame promise
batchThen(w, i, result) ==
    LET w1 == [w EXCEPT !.batch.results = setIndex(@, i, result),
                        !.batch.completed = @ + 1]
    IN analysisProgress(w1, w1.batch.completed, w1.batch.total)

\* variant of batchCatch that counts the failure but leaves the slot of the frame empty
batchCatch_noSlot(w, i, errMsg) ==
    LET w1 == [w EXCEPT !.batch.completed = @ + 1]
    IN analysisProgress(w1, w1.batch.completed, w1.batch.total)

\* .catch((err) => {...}) of the per-frame promise: the sentinel FrameAnalysis
batchCatch(w, i, errMsg) ==
    LET w1 == [w EXCEPT !.batch.results =
                            setIndex(@, i, FrameAnalysis(w.extractor.frames[i + 1], errMsg,
                                                         "none", "")),
                        !.batch.completed = @ + 1]
    IN analysisProgress(w1, w1.batch.completed, w1.batch.total)

\* variant of batchLoop whose loop bound stops one frame short
batchLoop_returnsEarly(w) ==
    IF w.batch.i < Len(w.extractor.frames) - 1
    THEN IF w.client.cancelled
         THEN runCatch([w EXCEPT !.batch.active = FALSE,
                                 !.obs.raised = MsgAnalysisCancelled],
                       Err(MsgAnalysisCancelled, NoError))
         ELSE [w EXCEPT !.calls["batch"] = [IdleCall EXCEPT !.pc = "b64"],
                        !.pipeline.pc = "analysis"]
    ELSE runAfterBatch([w EXCEPT !.batch.active = FALSE, !.batch.returned = TRUE],
                       w.batch.results)

\* the for loop of analyzeFramesBatch from its head to the next await
\* (executing.size >= concurrency holds after every add, so each frame is awaited)
batchLoop(w) ==
    IF w.batch.i < Len(w.extractor.frames)
    THEN IF w.client.cancelled
         THEN runCatch([w EXCEPT !.batch.active = FALSE,
                                 !.obs.raised = MsgAnalysisCancelled],
                       Err(MsgAnalysisCancelled, NoError))
         ELSE [w EXCEPT !.calls["batch"] = [IdleCall EXCEPT !.pc = "b64"],
                        !.pipeline.pc = "analysis"]
    ELSE runAfterBatch([w EXCEPT !.batch.active = FALSE, !.batch.returned = TRUE],
                       w.batch.results)

\* analyzeFramesBatch(frames, onProgress): entry
analyzeFramesBatch(w) ==
    batchLoop([w EXCEPT !.batch = [active |-> TRUE, returned |-> FALSE, i |-> 0,
                                   total |-> Len(w.extractor.frames),
                                   completed |-> 0, results |-> <<>>]])

\* variant of batchSettled in which a failing frame rejects the whole batch
batchSettled_abortsOnError(w, ok, profile, model, errMsg) ==
    LET i == w.batch.i
    IN IF ok
       THEN batchLoop([batchThen(w, i, FrameAnalysis(w.extractor.frames[i + 1], NoError,
                                                     profile, model))
                          EXCEPT !.batch.i = i + 1, !.calls["batch"] = IdleCall])
       ELSE runCatch([w EXCEPT !.batch.active = FALSE,
                               !.calls["batch"] = IdleCall,
                               !.obs.raised = errMsg],
                     Err(errMsg, NoError))

\* the per-frame promise settled: then / catch, finally, and the loop goes on
batchSettled(w, ok, profile, model, errMsg) ==
    LET i == w.batch.i
        w1 == IF ok
              THEN batchThen(w, i, FrameAnalysis(w.extractor.frames[i + 1], NoError,
                                                 profile, model))
              ELSE batchCatch(w, i, errMsg)
    IN batchLoop([w1 EXCEPT !.batch.i = i + 1, !.calls["batch"] = IdleCall])

\* ---------------------------------------------------------------------
\* HuggingFaceClient.analyzeFrame and the request loop
\* ---------------------------------------------------------------------
\* analyzeFrame settled for caller c: the batch continues, an outside caller gets the result
analyzeFrameSettled(w, c, ok, profile, model, errMsg) ==
    LET w1 == [w EXCEPT !.obs.step.caller = c,
                        !.obs.step.settled = IF ok THEN "returned" ELSE "threw",
                        !.obs.step.error = errMsg,
                        !.obs.step.model = model,
                        !.obs.step.frame = IF c = "batch" THEN w.batch.i ELSE -1,
                        !.obs.step.requests = w.calls[c].requests,
                        !.obs.step.limited = w.calls[c].limited,
                        !.obs.step.lastFault = w.calls[c].lastFault]
    IN IF c = "batch" THEN batchSettled(w1, ok, profile, model, errMsg)
       ELSE [w1 EXCEPT !.calls[c] = [IdleCall EXCEPT !.made = w.calls[c].made + 1]]

\* analyzeFrame, after `await this._sendWithConcurrency(body)` returned {text, model}:
\* _extractJson and FrameAnalysis.fromApiResponse (a JSON null makes the latter raise)
analyzeFrameParse(w, c, content, model) ==
    IF content = "null" THEN analyzeFrameSettled(w, c, FALSE, "none", "", MsgParse)
    ELSE analyzeFrameSettled(w, c, TRUE, content, model, NoError)

\* _sendWithConcurrency: the finally block, then the result or the error goes to analyzeFrame
sendFinally(w, c, ok, content, model, errMsg) ==
    LET w1 == [w EXCEPT !.client.activeRequests = @ - 1]
    IN IF ok THEN analyzeFrameParse(w1, c, content, model)
       ELSE analyzeFrameSettled(w1, c, FALSE, "none", "", errMsg)
\* _rotateModel()
rotateModel(w) ==
    [w EXCEPT !.client.currentModelIndex = (@ + 1) % TotalModels]

\* variant of fallbackLoop whose iterations do not look at the cancelled flag
fallbackLoop_noCancelCheck(w, c) ==
    IF w.calls[c].attempt >= MaxRetries * TotalModels
    THEN sendFinally(w, c, FALSE, "", "", w.calls[c].lastError)
    ELSE [w EXCEPT !.calls[c].pc = "fetch",
                   !.calls[c].model = Models[w.client.currentModelIndex + 1],
                   !.calls[c].timer = ColdStartTimeout,
                   !.calls[c].requests = @ + 1,
                   !.obs.step.started = TRUE,
                   !.obs.step.gap = w.obs.sinceLastStart,
                   !.obs.sinceLastStart = 0]

\* variant of fallbackLoop whose loop condition is attempt <= maxRetries * totalModels
fallbackLoop_extraAttempt(w, c) ==
    IF w.calls[c].attempt > MaxRetries * TotalModels
    THEN sendFinally(w, c, FALSE, "", "", w.calls[c].lastError)
    ELSE IF w.client.cancelled
    THEN sendFinally(w, c, FALSE, "", "", MsgCancelled)
    ELSE [w EXCEPT !.calls[c].pc = "fetch",
                   !.calls[c].model = Models[w.client.currentModelIndex + 1],
                   !.calls[c].timer = ColdStartTimeout,
                   !.calls[c].requests = @ + 1,
                   !.obs.step.started = TRUE,
                   !.obs.step.gap = w.obs.sinceLastStart,
                   !.obs.sinceLastStart = 0]

\* _sendWithFallback: the for condition, the cancel check and the fetch of one iteration
fallbackLoop(w, c) ==
    IF w.calls[c].attempt >= MaxRetries * TotalModels
    THEN sendFinally(w, c, FALSE, "", "", w.calls[c].lastError)
    ELSE IF w.client.cancelled
    THEN sendFinally(w, c, FALSE, "", "", MsgCancelled)
    ELSE [w EXCEPT !.calls[c].pc = "fetch",
                   !.calls[c].model = Models[w.client.currentModelIndex + 1],
                   !.calls[c].timer = ColdStartTimeout,
                   !.calls[c].requests = @ + 1,
                   !.obs.step.started = TRUE,
                   !.obs.step.gap = w.obs.sinceLastStart,
                   !.obs.sinceLastStart = 0]

\* `continue`, or the end of the loop body: attempt++ and back to the loop head
fallbackContinue(w, c) ==
    fallbackLoop([w EXCEPT !.calls[c].attempt = @ + 1, !.calls[c].timer = 0], c)

\* resp.status === 429
onRateLimited(w, c) ==
    LET tried == w.calls[c].modelsTriedInRound + 1
        w1 == rotateModel([w EXCEPT !.calls[c].modelsTriedInRound = tried,
                                    !.calls[c].limited = @ \cup {w.calls[c].model}])
    IN IF tried >= TotalModels
       THEN [w1 EXCEPT !.calls[c].pc = "backoffAll",
                       !.calls[c].timer = AllModelsBackoff]
       ELSE fallbackContinue([w1 EXCEPT !.calls[c].lastError = MsgRateLimited], c)

\* after the allModelsBackoff sleep
afterAllModelsBackoff(w, c) ==
    fallbackContinue([w EXCEPT !.calls[c].modelsTriedInRound = 0,
                               !.calls[c].limited = {},
                               !.calls[c].lastError = MsgRateLimited], c)

\* resp.status === 503: wait coldStartRetryDelay, then retry the same model
onModelLoading(w, c) ==
    [w EXCEPT !.calls[c].pc = "coldWait", !.calls[c].timer = ColdStartRetryDelay]

afterColdStartWait(w, c) ==
    fallbackContinue([w EXCEPT !.calls[c].lastError = MsgLoading], c)

\* catch (err), TimeoutError branch
onTimeout(w, c) ==
    fallbackContinue(rotateModel([w EXCEPT !.calls[c].lastError = MsgTimeout]), c)

\* variant of onUnauthorized in which the catch block does not rethrow the credential error
onUnauthorized_retried(w, c) ==
    [w EXCEPT !.obs.authSeen = TRUE,
              !.calls[c].lastError = MsgAuthInvalid,
              !.calls[c].pc = "backoff",
              !.calls[c].timer = InitialBackoff * Pow2(w.calls[c].attempt \div TotalModels)]

\* catch (err), the invalid-token branch: rethrown
onUnauthorized(w, c) ==
    sendFinally([w EXCEPT !.obs.authSeen = TRUE], c, FALSE, "", "", MsgAuthInvalid)

\* catch (err), any other error: exponential backoff, then the next iteration
onOtherError(w, c, errMsg) ==
    [w EXCEPT !.calls[c].lastError = errMsg,
              !.calls[c].pc = "backoff",
              !.calls[c].timer = InitialBackoff * Pow2(w.calls[c].attempt \div TotalModels)]

\* 2xx with content: the round counter is reset and {text, model} returned
onSuccess(w, c, content) ==
    sendFinally([w EXCEPT !.calls[c].modelsTriedInRound = 0], c, TRUE, content,
                w.calls[c].model, NoError)

\* the statuses fetch resolves with
Statuses == {"401", "429", "503", "500", "200"}
\* what reading the body gives: resp.text() of a 500 one of the two bodies, resp.json() of
\* a 200 no content or the content of a profile, and either of them a rejection
Bodies(status) ==
    IF status = "500" THEN {"error", "errorCancelled", "unreadable"}
    ELSE {"empty", "dull", "intense", "null", "unreadable"}
\* the responses that are not a 2xx with content
FaultKinds == {"401", "429", "503", "error", "errorCancelled", "unreadable", "empty"}

\* the body of one iteration of _sendWithFallback once the response r is known: at the
\* status for 401, 429 and 503, after the body was read for the others
onResponse(w, c, r) ==
    LET w1 == [w EXCEPT !.obs.step.response = r, !.obs.step.caller = c,
                        !.calls[c].status = "none",
                        !.calls[c].lastFault = IF r \in FaultKinds THEN r ELSE @]
    IN CASE r = "401" -> onUnauthorized(w1, c)
         [] r = "429" -> onRateLimited(w1, c)
         [] r = "503" -> onModelLoading(w1, c)
         [] r = "error" -> onOtherError(w1, c, MsgHttpError)
         [] r = "errorCancelled" -> onOtherError(w1, c, MsgHttpCancelled)
         [] r = "unreadable" -> onOtherError(w1, c, MsgUnreadable)
         [] r = "empty" -> onOtherError(w1, c, MsgEmpty)
         [] OTHER -> onSuccess(w1, c, r)

\* `const resp = await fetch(...)` resolved with a status: 401, 429 and 503 are handled
\* without the body, the others await resp.text() or resp.json() under the same signal
onStatus(w, c, status) ==
    IF status \in {"401", "429", "503"} THEN onResponse(w, c, status)
    ELSE [w EXCEPT !.calls[c].pc = "body", !.calls[c].status = status,
                   !.obs.step.caller = c]

\* _sendWithConcurrency after the spacing wait: the slot is taken and the loop entered
startRequest(w, c) ==
    fallbackLoop([w EXCEPT !.client.activeRequests = @ + 1,
                           !.client.sinceLastRequest = 0,
                           !.calls[c].attempt = 0,
                           !.calls[c].modelsTriedInRound = 0,
                           !.calls[c].lastError = NoError,
                           !.calls[c].timer = 0], c)

\* _sendWithConcurrency: the request spacing
admit(w, c) ==
    LET elapsed == w.client.sinceLastRequest
    IN IF elapsed < RequestDelay
       THEN [w EXCEPT !.calls[c].pc = "space", !.calls[c].timer = RequestDelay - elapsed]
       ELSE startRequest(w, c)

\* _sendWithConcurrency: the while condition
sendWithConcurrency(w, c) ==
    IF w.client.activeRequests >= Concurrency
    THEN [w EXCEPT !.calls[c].pc = "poll", !.calls[c].timer = PollInterval]
    ELSE admit(w, c)

\* _sendWithConcurrency: after one 200 ms wait of the while loop
afterPoll(w, c) ==
    IF w.client.cancelled THEN analyzeFrameSettled(w, c, FALSE, "none", "", MsgCancelled)
    ELSE sendWithConcurrency(w, c)
\* ---------------------------------------------------------------------
\* FrameExtractor.extractFrames and the first half of run()
\* ---------------------------------------------------------------------
\* run(), after `await this._frameExtractor.extractFrames(...)` returned
runAfterExtract(w) ==
    IF w.pipeline.cancelled THEN runCatch(w, Err(MsgCancelled, NoError))
    ELSE IF Len(w.extractor.frames) = 0 THEN runCatch(w, Err(MsgNoFrames, NoError))
    ELSE analyzeFramesBatch(updateProgress(w, "ai_analysis", 25))

\* extractFrames raised: the finally block revokes the object URL, run() catches
extractFail(w, text) ==
    runCatch([w EXCEPT !.extractor.urlOpen = FALSE], Err(text, NoError))

\* the for loop of extractFrames from its head to the seek
extractLoop(w) ==
    LET timestamp == w.extractor.i * Interval
    IN IF w.extractor.i < w.extractor.totalFrames
       THEN IF w.extractor.cancelled THEN extractFail(w, MsgExtractionCancelled)
            ELSE IF timestamp > w.extractor.duration
            THEN runAfterExtract([w EXCEPT !.extractor.urlOpen = FALSE])
            ELSE [w EXCEPT !.pipeline.pc = "ex_seek"]
       ELSE runAfterExtract([w EXCEPT !.extractor.urlOpen = FALSE])

\* extractFrames after the frame was drawn and encoded: push, onProgress, i++
extractPush(w) ==
    LET i == w.extractor.i
        percent == Percent(i + 1, w.extractor.totalFrames)
        w1 == [w EXCEPT !.extractor.frames = Append(@, i * Interval),
                        !.extractor.i = i + 1]
    IN extractLoop(updateProgress(w1, "frame_extraction", Round(percent * 25, 100)))

\* extractFrames taking one frame per interval without the maxFrames cap
extractStart_uncapped(w) ==
    IF w.extractor.duration = 0 THEN extractFail(w, MsgNoDuration)
    ELSE extractLoop([w EXCEPT !.extractor.totalFrames = (w.extractor.duration \div Interval) + 1,
                               !.extractor.i = 0,
                               !.extractor.frames = <<>>])

\* extractFrames once the video can be sought: duration check and frame count
extractStart(w) ==
    IF w.extractor.duration = 0 THEN extractFail(w, MsgNoDuration)
    ELSE extractLoop([w EXCEPT !.extractor.totalFrames =
                                   Min(MaxFrames, (w.extractor.duration \div Interval) + 1),
                               !.extractor.i = 0,
                               !.extractor.frames = <<>>])

\* run(file) up to its first await
run(w) ==
    LET w0 == [w EXCEPT !.pipeline.cancelled = FALSE,
                        !.pipeline.resultBlob = "null",
                        !.pipeline.resultStats = "null"]
    IN IF ~w.pipeline.apiKey THEN runCatch(w0, Err(MsgAuthMissing, NoError))
       ELSE LET w1 == updateProgress([w0 EXCEPT !.client = NewClient], "frame_extraction", 0)
            IN [w1 EXCEPT !.extractor.cancelled = FALSE,
                          !.extractor.urlOpen = TRUE,
                          !.pipeline.pc = "ex_meta"]

\* cancel() of the pipeline and of its three components
cancel(w) ==
    [w EXCEPT !.pipeline.cancelled = TRUE,
              !.extractor.cancelled = TRUE,
              !.client.cancelled = IF w.client.exists THEN TRUE ELSE @,
              !.assembler.cancelled = TRUE,
              !.obs.cancelCalled = TRUE]

\* ---------------------------------------------------------------------
\* Time
\* ---------------------------------------------------------------------
TimedPcs == {"poll", "space", "fetch", "body", "backoffAll", "coldWait", "backoff"}
SleepPcs == {"poll", "space", "backoffAll", "coldWait", "backoff"}

\* no pending timer of another call expires before dt has passed
OthersAllow(c, dt) ==
    \A d \in Callers \ {c} : calls[d].pc \in TimedPcs => dt <= calls[d].timer

\* dt milliseconds pass before the event of call c is handled
Elapse(w, c, dt) ==
    [w EXCEPT !.client.sinceLastRequest = Min(@ + dt, RequestDelay),
              !.obs.sinceLastStart = Min(@ + dt, RequestDelay),
              !.calls = [d \in Callers |->
                            IF d # c /\ w.calls[d].pc \in TimedPcs
                            THEN [w.calls[d] EXCEPT !.timer = @ - dt]
                            ELSE w.calls[d]]]

\* the state every step starts from
Begin == [World EXCEPT !.obs.step = NoStep]
\* ---------------------------------------------------------------------
\* Steps: the application, the user, the media element
\* ---------------------------------------------------------------------
Running == pipeline.pc \notin {"idle", "done"}

\* activePipeline.run(file)
Run ==
    /\ pipeline.pc = "idle"
    /\ ~client.exists
    /\ Commit(run(Begin))

\* the user cancels while the run is in progress
Cancel ==
    /\ Running
    /\ Commit(cancel(Begin))

\* video.onloadedmetadata / video.onerror
MetadataLoaded ==
    /\ pipeline.pc = "ex_meta"
    /\ \/ \E d \in Durations :
            Commit([Begin EXCEPT !.extractor.duration = d, !.pipeline.pc = "ex_canplay"])
       \/ Commit(extractFail(Begin, MsgLoadVideo))

\* readyState >= 3, oncanplaythrough, or the 3 s fallback timer
CanPlay ==
    /\ pipeline.pc = "ex_canplay"
    /\ Commit(extractStart(Begin))

\* 'seeked' or 'error' after video.currentTime = timestamp
Seeked ==
    /\ pipeline.pc = "ex_seek"
    /\ \/ Commit([Begin EXCEPT !.pipeline.pc = "ex_blob"])
       \/ Commit(extractFail(Begin, MsgSeekFailed))

\* canvas.toBlob callback
BlobReady ==
    /\ pipeline.pc = "ex_blob"
    /\ Commit(extractPush(Begin))

\* ---------------------------------------------------------------------
\* Steps: analyzeFrame calls
\* ---------------------------------------------------------------------
\* FileReader.onloadend / onerror of _blobToBase64
ReaderDone(c) ==
    /\ calls[c].pc = "b64"
    /\ OthersAllow(c, 0)
    /\ \/ Commit(sendWithConcurrency(Begin, c))
       \/ Commit(analyzeFrameSettled(Begin, c, FALSE, "none", "", MsgReader))

\* a setTimeout of the client expires
TimerFires(c) ==
    /\ calls[c].pc \in SleepPcs
    /\ OthersAllow(c, calls[c].timer)
    /\ LET w == Elapse(Begin, c, calls[c].timer)
       IN CASE calls[c].pc = "poll" -> Commit(afterPoll(w, c))
            [] calls[c].pc = "space" -> Commit(startRequest(w, c))
            [] calls[c].pc = "backoffAll" -> Commit(afterAllModelsBackoff(w, c))
            [] calls[c].pc = "coldWait" -> Commit(afterColdStartWait(w, c))
            [] calls[c].pc = "backoff" -> Commit(fallbackContinue(w, c))

\* fetch resolves with the status of an HTTP response before the deadline; a status
\* other than 200 makes the exchange one of the failing ones
Response(c) ==
    /\ calls[c].pc = "fetch"
    /\ \E dt \in Latencies, status \in Statuses :
        /\ dt < calls[c].timer
        /\ OthersAllow(c, dt)
        /\ status # "200" => obs.faultsLeft > 0
        /\ Commit(onStatus([Elapse(Begin, c, dt) EXCEPT
                               !.calls[c].timer = @ - dt,
                               !.obs.faultsLeft = IF status # "200" THEN @ - 1 ELSE @],
                           c, status))

\* resp.text() or resp.json() settles before the deadline
BodyRead(c) ==
    /\ calls[c].pc = "body"
    /\ \E dt \in BodyLatencies, r \in Bodies(calls[c].status) :
        /\ dt < calls[c].timer
        /\ OthersAllow(c, dt)
        /\ LET fails == calls[c].status = "200" /\ r \in FaultKinds
           IN /\ fails => obs.faultsLeft > 0
              /\ Commit(onResponse([Elapse(Begin, c, dt) EXCEPT
                                       !.obs.faultsLeft = IF fails THEN @ - 1 ELSE @],
                                   c, r))

\* AbortSignal.timeout(coldStartTimeout) aborts the fetch or the reading of its body
Timeout(c) ==
    /\ calls[c].pc \in {"fetch", "body"}
    /\ OthersAllow(c, calls[c].timer)
    /\ LET fails == calls[c].status # "500"
       IN /\ fails => obs.faultsLeft > 0
          /\ Commit(onTimeout([Elapse(Begin, c, calls[c].timer) EXCEPT
                                  !.obs.step.response = "timeout",
                                  !.obs.step.caller = c,
                                  !.calls[c].status = "none",
                                  !.calls[c].lastFault = "timeout",
                                  !.obs.faultsLeft = IF fails THEN @ - 1 ELSE @], c))

\* code outside the batch calls client.analyzeFrame(blob, timestamp)
DirectAnalyzeFrame(c) ==
    /\ c \in DirectCallers
    /\ client.exists
    /\ calls[c].pc = "idle"
    /\ calls[c].made < MaxDirectCalls
    /\ Commit([Begin EXCEPT !.calls[c].pc = "b64"])

\* client.cancel() called on the client itself
ClientCancel ==
    /\ client.exists
    /\ ~client.cancelled
    /\ Commit([Begin EXCEPT !.client.cancelled = TRUE])
\* ---------------------------------------------------------------------
\* Steps: VideoAssembler (ffmpeg.wasm toolchain)
\* ---------------------------------------------------------------------
\* the onProgress closure of assemble adding the percent of assemble() unscaled
assemblyProgress_unscaled(w, percent) ==
    updateProgress(w, "video_generation", 75 + percent)

\* the onProgress closure run() passes to assemble
assemblyProgress(w, percent) ==
    updateProgress(w, "video_generation", 75 + Round(percent * 25, 100))

\* a toolchain call rejected: assemble()/load() rejects and run() catches
ToolchainMessages == {MsgToolchain, MsgToolchainCancelled}
toolchainFail(w, msg) == runCatch(w, Err(msg, NoError))

\* assemble(): cleanup finished or gave up, the final onProgress, the blob is returned
assembleReturn(w) ==
    runAfterAssemble(assemblyProgress([w EXCEPT !.assembler.cleanup = <<>>], 100))

\* one of the awaits of load() before ffmpeg.load settles: the two dynamic imports, then
\* the three toBlobURL fetches; after the last one ffmpeg.load is issued
ImportDone ==
    /\ pipeline.pc = "va_import"
    /\ \/ Commit([Begin EXCEPT !.assembler.imports = @ + 1,
                                !.pipeline.pc = IF assembler.imports + 1 = ImportAwaits
                                                THEN "va_load" ELSE @])
       \/ \E msg \in ToolchainMessages : Commit(toolchainFail(Begin, msg))

\* ffmpeg.load({coreURL, wasmURL, workerURL})
LoadDone ==
    /\ pipeline.pc = "va_load"
    /\ \/ Commit(runAfterLoad([Begin EXCEPT !.assembler.loaded = TRUE]))
       \/ \E msg \in ToolchainMessages : Commit(toolchainFail(Begin, msg))

\* videoFile.arrayBuffer(), then ffmpeg.writeFile(inputName, inputData) is issued
BufferRead ==
    /\ pipeline.pc = "va_buffer"
    /\ \/ Commit([Begin EXCEPT !.pipeline.pc = "va_writeInput"])
       \/ \E msg \in ToolchainMessages : Commit(toolchainFail(Begin, msg))

\* writeFile of the input done: the cut loop starts
InputWritten ==
    /\ pipeline.pc = "va_writeInput"
    /\ \/ Commit(assembleLoop([Begin EXCEPT !.assembler.files = @ \cup {InputFile},
                                            !.assembler.cuts = <<>>,
                                            !.assembler.manifest = <<>>]))
       \/ \E msg \in ToolchainMessages : Commit(toolchainFail(Begin, msg))

\* ffmpeg.exec of cut i resolved (exit status 0 with the file written, or a non-zero
\* status with or without a file) or rejected
CutDone ==
    /\ pipeline.pc = "va_cut"
    /\ LET i == assembler.i
           total == Len(assembler.ordered)
       IN \/ \E exit \in ExitCodes, written \in BOOLEAN :
               /\ exit = 0 => written
               /\ Commit(assembleLoop(assemblyProgress(
                      [Begin EXCEPT !.assembler.files =
                                        IF written THEN @ \cup {ClipFile(i)} ELSE @,
                                    !.assembler.manifest = Append(@, ClipFile(i)),
                                    !.assembler.i = i + 1,
                                    !.obs.execFailed = @ \/ exit # 0],
                      Round((i + 1) * 80, total))))
          \/ \E msg \in ToolchainMessages :
                Commit(toolchainFail([Begin EXCEPT
                           !.assembler.manifest = Append(@, ClipFile(i))], msg))

\* writeFile('concat.txt') done: onProgress, then the concat exec is issued
ListWritten ==
    /\ pipeline.pc = "va_writeList"
    /\ \/ Commit([assemblyProgress([Begin EXCEPT !.assembler.files = @ \cup {ListFile}], 85)
                     EXCEPT !.assembler.concats = @ + 1, !.pipeline.pc = "va_concat"])
       \/ \E msg \in ToolchainMessages : Commit(toolchainFail(Begin, msg))

\* ffmpeg.exec of the concat resolved (exit status 0 with the output written, or a non-zero
\* status with or without an output) or rejected: onProgress, readFile is issued
ConcatDone ==
    /\ pipeline.pc = "va_concat"
    /\ \/ \E exit \in ExitCodes, written \in BOOLEAN :
            /\ exit = 0 => written
            /\ Commit([assemblyProgress(
                           [Begin EXCEPT !.assembler.files =
                                             IF written THEN @ \cup {OutputFile} ELSE @,
                                         !.obs.execFailed = @ \/ exit # 0], 95)
                          EXCEPT !.pipeline.pc = "va_readOut"])
       \/ \E msg \in ToolchainMessages : Commit(toolchainFail(Begin, msg))

\* ffmpeg.readFile(outputName): it rejects when the output does not exist
OutputRead ==
    /\ pipeline.pc = "va_readOut"
    /\ IF OutputFile \in assembler.files
       THEN Commit([Begin EXCEPT !.assembler.cleanup =
                                     <<InputFile, ListFile, OutputFile>> \o assembler.manifest,
                                 !.pipeline.pc = "va_cleanup"])
       ELSE \E msg \in ToolchainMessages : Commit(toolchainFail(Begin, msg))

\* one ffmpeg.deleteFile of the cleanup: a failure ends the cleanup silently
FileDeleted ==
    /\ pipeline.pc = "va_cleanup"
    /\ LET f == Head(assembler.cleanup)
           rest == Tail(assembler.cleanup)
       IN IF f \in assembler.files
          THEN LET w == [Begin EXCEPT !.assembler.files = @ \ {f},
                                      !.assembler.cleanup = rest]
               IN IF Len(rest) = 0 THEN Commit(assembleReturn(w)) ELSE Commit(w)
          ELSE Commit(assembleReturn(Begin))

\* ---------------------------------------------------------------------
\* Specifications
\* ---------------------------------------------------------------------
InitCommon(faults) ==
    /\ extractor = InitExtractor
    /\ batch = InitBatch
    /\ calls = [c \in Callers |-> IdleCall]
    /\ assembler = InitAssembler
    /\ obs = InitObs(faults)
    /\ director = InitDirection
    /\ page = InitPage(TRUE)

\* a ProcessingPipeline was constructed, with or without a credential
Init ==
    /\ \E key \in BOOLEAN : pipeline = InitPipeline(key)
    /\ client = NoClient
    /\ InitCommon(MaxFaults)

Next ==
    \/ Run
    \/ Cancel
    \/ MetadataLoaded
    \/ CanPlay
    \/ Seeked
    \/ BlobReady
    \/ \E c \in Callers : ReaderDone(c)
    \/ \E c \in Callers : TimerFires(c)
    \/ \E c \in Callers : Response(c)
    \/ \E c \in Callers : BodyRead(c)
    \/ \E c \in Callers : Timeout(c)
    \/ ImportDone
    \/ LoadDone
    \/ BufferRead
    \/ InputWritten
    \/ CutDone
    \/ ListWritten
    \/ ConcatDone
    \/ OutputRead
    \/ FileDeleted

Spec == Init /\ [][Next]_vars

\* a HuggingFaceClient used on its own by concurrent analyzeFrame callers
InitDirect ==
    /\ pipeline = InitPipeline(TRUE)
    /\ client = NewClient
    /\ InitCommon(MaxFaultsDirect)

NextDirect ==
    \/ \E c \in DirectCallers : DirectAnalyzeFrame(c)
    \/ \E c \in DirectCallers : ReaderDone(c)
    \/ \E c \in DirectCallers : TimerFires(c)
    \/ \E c \in DirectCallers : Response(c)
    \/ \E c \in DirectCallers : BodyRead(c)
    \/ \E c \in DirectCallers : Timeout(c)
    \/ ClientCancel

SpecDirect == InitDirect /\ [][NextDirect]_vars

\* one analyzeFrame call on a fresh client, every exchange of its budget may fail
InitFrame ==
    /\ pipeline = InitPipeline(TRUE)
    /\ client = NewClient
    /\ InitCommon(MaxRetries * TotalModels)

\* the single call is made
SingleAnalyzeFrame ==
    /\ calls["d1"].pc = "idle"
    /\ calls["d1"].made = 0
    /\ Commit([Begin EXCEPT !.calls["d1"].pc = "b64"])

NextFrame ==
    \/ SingleAnalyzeFrame
    \/ ReaderDone("d1")
    \/ TimerFires("d1")
    \/ Response("d1")
    \/ BodyRead("d1")
    \/ Timeout("d1")
    \/ ClientCancel

SpecFrame == InitFrame /\ [][NextFrame]_vars

\* the pipeline run with the progress the program itself guarantees: a timer it armed
\* fires (the 3 s canplay fallback, every setTimeout sleep of the client) and a fetch
\* settles, by AbortSignal.timeout at the latest. The media element, the FileReader and
\* the toolchain are outside the program: nothing obliges them to signal.
SpecLive ==
    /\ Init
    /\ [][Next]_vars
    /\ WF_vars(CanPlay)
    /\ \A c \in Callers : WF_vars(TimerFires(c))
    /\ \A c \in Callers : WF_vars(Response(c) \/ BodyRead(c) \/ Timeout(c))

\* what the vision API made of one frame, as the batch recorded it: a response of one of
\* the profiles, among them one whose intensity is a name the score table inherits, or a
\* failure
FrameOutcomes == {"dull", "intense", "kill", "clutch", "calm", "odd", "inherited", "failed"}

\* how far the media runs past its last sampled frame: 0, 0.25, 0.5, 2.5 s and one tick
\* less than 10 s
DurationOffsets == {0, 16, 32, 160, 639}

Kills(n) == [k \in 1..n |-> "kill"]

\* leading frames of the batches explored: none, one intense frame, or a run of kill
\* frames long enough for the highlights to reach the target duration
LeadingFrames == {<<>>, <<"intense">>, <<"calm", "kill">>, Kills(22) \o <<"clutch">>, Kills(24)}

\* results of analyzeFramesBatch for the given outcomes of frames 0, 1, ...
BatchResults(outcomes) ==
    [k \in 1..Len(outcomes) |->
        IF outcomes[k] = "failed"
        THEN FrameAnalysis((k - 1) * Interval, MsgHttpError, "none", "")
        ELSE FrameAnalysis((k - 1) * Interval, NoError, outcomes[k], Models[1])]

\* the progress events of the extraction and of the analysis of total frames
ProgressOfFrames(total) ==
    {<<"frame_extraction", 0>>, <<"ai_analysis", 25>>}
        \cup {<<"frame_extraction", Round(Percent(k, total) * 25, 100)>> : k \in 1..total}
        \cup {<<"ai_analysis", 25 + Scale35(Percent(k, total))>> : k \in 1..total}

\* run() is waiting on analyzeFramesBatch, whose last frame has just been settled: the
\* frames were sampled every intervalSeconds from a media of some positive duration, and
\* every slot of results holds an analysis or a failure sentinel
InitAnalyzed(outcomes, o) ==
    LET total == Len(outcomes)
        duration == (total - 1) * Interval + o
    IN /\ total >= 1
       /\ duration > 0
       /\ client = NewClient
       /\ calls = [c \in Callers |-> IdleCall]
       /\ assembler = InitAssembler
       /\ director = InitDirection
       /\ page = InitPage(TRUE)
       /\ pipeline = [InitPipeline(TRUE) EXCEPT !.pc = "analysis"]
       /\ extractor = [InitExtractor EXCEPT
                           !.duration = duration, !.totalFrames = total, !.i = total,
                           !.frames = [k \in 1..total |-> (k - 1) * Interval]]
       /\ batch = [active |-> TRUE, returned |-> FALSE, i |-> total, total |-> total,
                   completed |-> total, results |-> BatchResults(outcomes)]
       /\ obs = [InitObs(0) EXCEPT !.stages = <<"frame_extraction", "ai_analysis">>,
                                   !.lastProgress = 60,
                                   !.events = ProgressOfFrames(total)]

InitDirector ==
    \E lead \in LeadingFrames, n \in 0..MaxTailFrames, o \in DurationOffsets :
        \E tail \in [1..n -> FrameOutcomes] : InitAnalyzed(lead \o tail, o)

\* the for loop of analyzeFramesBatch finds no frame left: the batch returns its results
\* and run() goes on to direct(), the clamp and load()
BatchReturns ==
    /\ pipeline.pc = "analysis"
    /\ batch.active
    /\ batch.i = Len(extractor.frames)
    /\ calls["batch"].pc = "idle"
    /\ Commit(batchLoop(Begin))

NextDirector ==
    \/ BatchReturns
    \/ ImportDone
    \/ LoadDone

\* direct() and the clamp of run() on bounded batches of analyses
SpecDirector == InitDirector /\ [][NextDirector]_vars

\* run() is waiting on a batch whose frames were all analyzed as intense: one clip per
\* frame, from a single clip to more clips than the cut loop has progress points
InitAssembly ==
    \E n \in 1..MaxIntenseFrames, o \in {0, 639} :
        InitAnalyzed([k \in 1..n |-> "intense"], o)

NextAssembly ==
    \/ BatchReturns
    \/ ImportDone
    \/ LoadDone
    \/ BufferRead
    \/ InputWritten
    \/ CutDone
    \/ ListWritten
    \/ ConcatDone
    \/ OutputRead
    \/ FileDeleted

\* uncancelled runs from the analyses to the end of the assembly, with many clips
SpecAssembly == InitAssembly /\ [][NextAssembly]_vars

\* ---------------------------------------------------------------------
\* Frame extraction of short and long media
\* ---------------------------------------------------------------------
\* durations explored: shorter than the interval, around its multiples, and around the
\* (maxFrames - 1) intervals from which the cap applies
LongDurations ==
    {16, Interval - 1, Interval, 2 * Interval + 352,
     (MaxFrames - 1) * Interval - 1, (MaxFrames - 1) * Interval,
     MaxFrames * Interval, (MaxFrames + 40) * Interval}

\* video.onloadedmetadata / video.onerror, for a media of one of the durations above
LongMetadataLoaded ==
    /\ pipeline.pc = "ex_meta"
    /\ \/ \E d \in LongDurations :
            Commit([Begin EXCEPT !.extractor.duration = d, !.pipeline.pc = "ex_canplay"])
       \/ Commit(extractFail(Begin, MsgLoadVideo))

NextExtract ==
    \/ Run
    \/ Cancel
    \/ LongMetadataLoaded
    \/ CanPlay
    \/ Seeked
    \/ BlobReady

\* run() up to the return of extractFrames
SpecExtract == Init /\ [][NextExtract]_vars

\* ---------------------------------------------------------------------
\* The director and its helpers called on their own
\* ---------------------------------------------------------------------
\* seed clips as suggestHighlights constructs them: priority, type, label and score of a
\* multi-kill, a clutch or a high-excitement seed
SeedKinds == {[clipType |-> "multi_kill", label |-> "DOUBLE KILL", priority |-> 10, score |-> 90],
              [clipType |-> "clutch", label |-> "CLUTCH", priority |-> 9, score |-> 80],
              [clipType |-> "high_excitement", label |-> "INTENSE", priority |-> 7, score |-> 70]}
\* ranges of the seeds explored: overlapping, touching, and apart
SeedRanges == {<<640, 1152>>, <<960, 1600>>, <<1600, 1920>>, <<2560, 2880>>}
SeedLists ==
    UNION {[1..n -> SeedRanges \X SeedKinds] : n \in 0..MaxSeeds}
SeedClips(seeds) ==
    [k \in 1..Len(seeds) |->
        Clip(seeds[k][1][1], seeds[k][1][2], seeds[k][2].clipType, seeds[k][2].label,
             seeds[k][2].priority, seeds[k][2].score, "low", randomUUID(k))]

\* clips in score order, one every 20 s, of the given durations and intensities
ScoredClips(durations, intensities) ==
    [k \in 1..Len(durations) |->
        Clip((k - 1) * 1280, (k - 1) * 1280 + durations[k], "high_excitement", "INTENSE", 7,
             100 - k, intensities[k], randomUUID(k))]

\* score-ordered lists that reach the target duration: ten or eleven clips of the maximal
\* length, then up to MaxTrimTail clips of a length between the minimum and the maximum
TrimTailDurations == {MinClipLength, 256, 640, MaxClipLength}
TrimLists ==
    {ScoredClips([k \in 1..lead |-> MaxClipLength] \o tail,
                 [k \in 1..(lead + Len(tail)) |-> "high"]) :
        lead \in {10, 11},
        tail \in UNION {[1..n -> TrimTailDurations] : n \in 0..MaxTrimTail}}

\* score-ordered lists of up to MaxPaced clips of every intensity, a name optimizePacing
\* does not know included
Intensities == {"very_high", "high", "medium", "low", "extreme"}
PaceLists ==
    {ScoredClips([k \in 1..Len(intensities) |-> 320], intensities) :
        intensities \in UNION {[1..n -> Intensities] : n \in 0..MaxPaced}}

\* every combination of the fields analyzeExcitementLevels reads (confidence in percent),
\* names that the tables do not hold and names that they inherit included
FieldCombinations ==
    [killLog : BOOLEAN, killCount : 0..3,
     actionIntensity : Intensities \cup {"constructor", "__proto__"},
     matchStatus : {"victory", "clutch", "overtime", "defeat", "normal", "unknown",
                    "toString"},
     enemyVisible : BOOLEAN, enemyCount : {0, 1, 3}, confidence : {0, 25, 50, 79, 100}]

\* new FrameAnalysis({timestamp: 0, ...fields})
FieldAnalysis(f) ==
    [timestamp |-> 0, error |-> NoError, profile |-> "fields", modelUsed |-> Models[1],
     fields |-> f]

\* the valid analyses of the batches of SpecDirector
ValidBatches ==
    {SelectSeq(BatchResults(lead \o tail), LAMBDA a : a.error = NoError) :
        lead \in LeadingFrames,
        tail \in UNION {[1..n -> FrameOutcomes] : n \in 0..MaxTailFrames}}

\* frames off the 10 s grid, at 10, 14, 18, 22.0625 and 40.0625 s: each of them is absent
\* or of one of the profiles, among them one whose intensity is an inherited name
OffGridTimes == <<640, 896, 1152, 1412, 2564>>
OffGridProfiles == {"none", "intense", "kill", "clutch", "inherited"}
OffGridBatches ==
    {SelectSeq([k \in 1..Len(OffGridTimes) |->
                   FrameAnalysis(OffGridTimes[k], NoError, profiles[k], Models[1])],
               LAMBDA a : a.profile # "none") :
        profiles \in [1..Len(OffGridTimes) -> OffGridProfiles]}

\* clips of a length that is an odd number of sixteenths of a second, shorter than the
\* minimum, between the bounds and longer than the maximum, one of them starting at 0
LengthRanges == {<<640, 772>>, <<640, 828>>, <<0, 132>>, <<640, 836>>, <<0, 1028>>}
LengthLists == UNION {[1..n -> LengthRanges \X SeedKinds] : n \in 1..2}

\* frame timestamps of the kill sweeps: the kills of scenario S2 at 10, 13,
\* 18 and 30 s, one at 10.0625 s, a kill inside the first window, one on its edge at
\* 20 s and one just beyond it at 20.0625 s (itself on the edge of the window that
\* opens at 10.0625 s), and two later ones 10.0625 s apart
SweepTimes == <<640, 644, 832, 960, 1152, 1280, 1284, 1920, 2240, 2884>>

\* analyses at the sweep timestamps with every choice of kill logs, in frame order and
\* in the reverse order
KillLists ==
    UNION {{[k \in 1..Len(SweepTimes) |->
                [timestamp |-> SweepTimes[k], killLog |-> kills[k]]],
            [k \in 1..Len(SweepTimes) |->
                [timestamp |-> SweepTimes[Len(SweepTimes) + 1 - k],
                 killLog |-> kills[Len(SweepTimes) + 1 - k]]]} :
           kills \in [1..Len(SweepTimes) -> BOOLEAN]}

\* values a QualityScore is built from: the valid range and a margin on both sides
RawValues == -10..110

\* an outside caller holds a list of clips, a list of analyses, or a quality value
InitPlanner ==
    /\ page = InitPage(TRUE)
    /\ pipeline = InitPipeline(TRUE)
    /\ client = NoClient
    /\ extractor = InitExtractor
    /\ batch = InitBatch
    /\ calls = [c \in Callers |-> IdleCall]
    /\ assembler = InitAssembler
    /\ obs = InitObs(0)
    /\ \/ \E seeds \in SeedLists :
             director = [InitDirection EXCEPT !.kind = "clips", !.clips = SeedClips(seeds)]
       \/ \E clips \in TrimLists \cup PaceLists :
             director = [InitDirection EXCEPT !.kind = "clips", !.clips = clips]
       \/ \E seeds \in LengthLists :
             director = [InitDirection EXCEPT !.kind = "clips", !.clips = SeedClips(seeds)]
       \/ \E f \in FieldCombinations :
             director = [InitDirection EXCEPT !.kind = "analyses",
                                              !.analyses = <<FieldAnalysis(f)>>]
       \/ \E analyses \in ValidBatches \cup OffGridBatches :
             director = [InitDirection EXCEPT !.kind = "analyses", !.analyses = analyses]
       \/ \E analyses \in KillLists :
             director = [InitDirection EXCEPT !.kind = "kills", !.analyses = analyses]
       \/ \E value \in RawValues :
             director = [InitDirection EXCEPT !.kind = "value", !.value = value]

Untouched == UNCHANGED <<pipeline, extractor, client, batch, calls, assembler, obs, page>>

\* highlightDetector.mergeOverlappingClips(clips)
MergeCall ==
    /\ director.kind = "clips"
    /\ director.op = "none"
    /\ director' = [director EXCEPT !.op = "mergeOverlappingClips",
                                    !.out = mergeOverlappingClips(director.clips)]
    /\ Untouched

\* compositionPlanner.adjustClipLengths(clips)
AdjustCall ==
    /\ director.kind = "clips"
    /\ director.op = "none"
    /\ director' = [director EXCEPT !.op = "adjustClipLengths",
                                    !.out = adjustClipLengths(director.clips)]
    /\ Untouched

\* compositionPlanner.trimToTargetDuration(clips)
TrimCall ==
    /\ director.kind = "clips"
    /\ director.op = "none"
    /\ director' = [director EXCEPT !.op = "trimToTargetDuration",
                                    !.out = trimToTargetDuration(director.clips)]
    /\ Untouched

\* compositionPlanner.optimizePacing(clips)
PaceCall ==
    /\ director.kind = "clips"
    /\ director.op = "none"
    /\ director' = [director EXCEPT !.op = "optimizePacing",
                                    !.out = optimizePacing(director.clips)]
    /\ Untouched

\* highlightDetector.analyzeExcitementLevels(analyses)
ExciteCall ==
    /\ director.kind = "analyses"
    /\ director.op = "none"
    /\ director' = [director EXCEPT !.op = "analyzeExcitementLevels",
                                    !.out = analyzeExcitementLevels(director.analyses)]
    /\ Untouched

\* the value of direct() is kept, and the UUIDs it drew are not drawn again
directReturned(d, result) ==
    [d EXCEPT !.op = "direct", !.results = Append(@, result), !.drawn = result.drawn]

\* creativeDirector.direct(analyses), a first and a second time
DirectCall ==
    /\ director.kind = "analyses"
    /\ director.op \in {"none", "direct"}
    /\ Len(director.results) < 2
    /\ director' = directReturned(director, direct(director.analyses, director.drawn))
    /\ Untouched

\* new QualityScore(value), its grade, and the grade the result view shows for the value
GradeCall ==
    /\ director.kind = "value"
    /\ director.op = "none"
    /\ director' = [director EXCEPT
                       !.op = "grade",
                       !.out = <<[value |-> QualityScoreValue(director.value),
                                  grade |-> grade(QualityScoreValue(director.value)),
                                  shown |-> getQualityGrade(
                                                QualityScoreValue(director.value))]>>]
    /\ Untouched

\* highlightDetector.detectMultiEvents(analyses)
MultiEventCall ==
    /\ director.kind = "kills"
    /\ director.op = "none"
    /\ director' = [director EXCEPT !.op = "detectMultiEvents",
                                    !.out = detectMultiEvents(director.analyses)]
    /\ Untouched

NextPlanner ==
    \/ GradeCall
    \/ MultiEventCall
    \/ MergeCall
    \/ AdjustCall
    \/ TrimCall
    \/ PaceCall
    \/ ExciteCall
    \/ DirectCall

\* a ProcessingPipeline was constructed with an onComplete callback that raises
InitCallback ==
    /\ \E key \in BOOLEAN, msg \in {MsgCallbackRaised, MsgCallbackCancelled} :
          pipeline = [InitPipeline(key) EXCEPT !.onCompleteRaises = msg]
    /\ client = NoClient
    /\ InitCommon(MaxFaults)

\* runs of a pipeline whose onComplete callback raises
SpecCallback == InitCallback /\ [][Next]_vars

\* ---------------------------------------------------------------------
\* The page: views, activePipeline and the callbacks of the pipelines it created
\* ---------------------------------------------------------------------
\* Router.navigate(viewName): UploadView.init() forgets the selected file,
\* DashboardView.init() renders the project card when there is a result and removes it
\* when there is none
navigate(pg, viewName) ==
    [pg EXCEPT !.currentView = viewName,
               !.selectedFile = IF viewName = "upload" THEN FALSE ELSE @,
               !.cardShown = IF viewName = "dashboard" THEN pg.lastResult # 0 ELSE @]

\* ProcessingView.startLocalProcessing(file): showError without a key, else a new
\* pipeline is stored in activePipeline and its run(file) is started
startLocalProcessing(pg) ==
    IF ~pg.hasKey THEN navigate(pg, "error")
    ELSE [pg EXCEPT !.runs = Append(@, [state |-> "running", cancelled |-> FALSE]),
                    !.activePipeline = Len(pg.runs) + 1]

\* a run that is executing and was not cancelled
InProgress(pg, p) == pg.runs[p].state = "running" /\ ~pg.runs[p].cancelled

\* a terminal callback of pipeline p ran while another pipeline was in progress
callbackOf(pg, p) ==
    [pg EXCEPT !.runs[p].state = "ended",
               !.activePipeline = 0,
               !.intruded = @ \/ \E q \in 1..Len(pg.runs) : q # p /\ InProgress(pg, q)]

Unpaged == UNCHANGED <<pipeline, extractor, client, batch, calls, assembler, obs, director>>

\* the pipelines and the result are those of the page
InitPageSpec ==
    /\ pipeline = InitPipeline(TRUE)
    /\ client = NoClient
    /\ extractor = InitExtractor
    /\ batch = InitBatch
    /\ calls = [c \in Callers |-> IdleCall]
    /\ assembler = InitAssembler
    /\ obs = InitObs(0)
    /\ director = InitDirection
    /\ \E hasKey \in BOOLEAN, firebase \in BOOLEAN :
          page = [InitPage(hasKey) EXCEPT !.firebase = firebase]

\* views a sidebar item leads to
SidebarViews == {"dashboard", "upload"}

\* click on a sidebar item, on any view
SidebarClick ==
    /\ ~page.landing
    /\ \E view \in SidebarViews : page' = navigate(page, view)
    /\ Unpaged

\* the new-project, new-upload and retry buttons lead to the upload view, the back
\* buttons of the result and error views to the dashboard
ButtonClick ==
    /\ ~page.landing
    /\ \/ /\ page.currentView \in {"dashboard", "result", "error"}
          /\ page' = navigate(page, "upload")
       \/ /\ page.currentView \in {"result", "error"}
          /\ page' = navigate(page, "dashboard")
    /\ Unpaged

\* click on the project card of the dashboard: the result view, whatever lastResultBlob
\* is by now
CardClick ==
    /\ ~page.landing
    /\ page.currentView = "dashboard"
    /\ page.cardShown
    /\ page' = navigate(page, "result")
    /\ Unpaged

\* signOut() up to its await (logoutBtn): the active pipeline is cancelled and forgotten,
\* the result is forgotten, the view stays; firebaseAuth.signOut() is issued when
\* firebaseAuth is set
SignOut ==
    /\ ~page.landing
    /\ LET ap == page.activePipeline
           pg == IF ap # 0 THEN [page EXCEPT !.runs[ap].cancelled = TRUE,
                                             !.activePipeline = 0]
                 ELSE page
       IN page' = [pg EXCEPT !.lastResult = 0, !.signingOut = pg.firebase]
    /\ Unpaged

\* onAuthStateChanged(null) after firebaseAuth.signOut(): showLanding()
SignedOut ==
    /\ page.signingOut
    /\ page' = [page EXCEPT !.signingOut = FALSE, !.landing = TRUE]
    /\ Unpaged

\* onAuthStateChanged(user) on a fresh login: showApp() navigates to the dashboard
SignedIn ==
    /\ page.landing
    /\ page' = navigate([page EXCEPT !.landing = FALSE], "dashboard")
    /\ Unpaged

\* UploadView.setFile(file) with a valid file
SetFile ==
    /\ ~page.landing
    /\ page.currentView = "upload"
    /\ page' = [page EXCEPT !.selectedFile = TRUE]
    /\ Unpaged

\* saveSettings / clearSettings: the key is stored in or removed from localStorage
Settings ==
    /\ ~page.landing
    /\ \E hasKey \in BOOLEAN : page' = [page EXCEPT !.hasKey = hasKey]
    /\ Unpaged

\* UploadView.upload(): nothing without a file, a toast without a key, else the
\* processing view is shown and startLocalProcessing creates and runs a pipeline
UploadClick ==
    /\ ~page.landing
    /\ page.currentView = "upload"
    /\ page.selectedFile
    /\ page.hasKey
    /\ Len(page.runs) < MaxRuns
    /\ page' = startLocalProcessing(navigate(page, "processing"))
    /\ Unpaged

\* handleCancelProcessing: only with an active pipeline
CancelClick ==
    /\ ~page.landing
    /\ page.currentView = "processing"
    /\ page.activePipeline # 0
    /\ page' = navigate([page EXCEPT !.runs[page.activePipeline].cancelled = TRUE,
                                     !.activePipeline = 0],
                        "dashboard")
    /\ Unpaged

\* the onComplete callback of pipeline p (a cancelled run never completes)
RunCompletes(p) ==
    /\ InProgress(page, p)
    /\ page' = navigate([callbackOf(page, p) EXCEPT !.lastResult = p], "result")
    /\ Unpaged

\* the onError callback of pipeline p: a failure of the run, also of a cancelled run
\* whose pending operation fails
RunFails(p) ==
    /\ page.runs[p].state = "running"
    /\ page' = navigate(callbackOf(page, p), "error")
    /\ Unpaged

\* a run ends with a log line only: a cancelled run, or a run whose error message has
\* 'cancelled' in it
RunEndsSilently(p) ==
    /\ page.runs[p].state = "running"
    /\ page' = [page EXCEPT !.runs[p].state = "ended"]
    /\ Unpaged

NextPage ==
    \/ SidebarClick
    \/ ButtonClick
    \/ SetFile
    \/ Settings
    \/ UploadClick
    \/ CancelClick
    \/ CardClick
    \/ SignOut
    \/ SignedOut
    \/ SignedIn
    \/ \E p \in 1..Len(page.runs) : RunCompletes(p)
    \/ \E p \in 1..Len(page.runs) : RunFails(p)
    \/ \E p \in 1..Len(page.runs) : RunEndsSilently(p)

\* the user on the page and the pipelines the page created
SpecPage == InitPageSpec /\ [][NextPage]_vars

\* the pure methods of the director applied to bounded inputs
SpecPlanner == InitPlanner /\ [][NextPlanner]_vars

\* ---------------------------------------------------------------------
\* Properties
\* ---------------------------------------------------------------------
ModelSet == {Models[k] : k \in 1..TotalModels}
Budget == MaxRetries * TotalModels
StageOrder == <<"frame_extraction", "ai_analysis", "clip_detection", "video_generation",
                "completed">>
IsPrefix(s, t) == Len(s) <= Len(t) /\ \A k \in 1..Len(s) : s[k] = t[k]
Entered(stage) == \E k \in 1..Len(obs.stages) : obs.stages[k] = stage
LastStage == IF Len(obs.stages) = 0 THEN "none" ELSE obs.stages[Len(obs.stages)]
ExtractPcs == {"ex_meta", "ex_canplay", "ex_seek", "ex_blob"}
ToolchainPcs == {"va_import", "va_load", "va_buffer", "va_writeInput", "va_cut",
                 "va_writeList", "va_concat", "va_readOut", "va_cleanup"}
ExpectedFrames(duration) == Min(MaxFrames, (duration \div Interval) + 1)

\* the message _sendWithFallback keeps as lastError for a failing exchange
MsgOfFault(f) ==
    CASE f = "429" -> MsgRateLimited
      [] f = "503" -> MsgLoading
      [] f = "timeout" -> MsgTimeout
      [] f = "error" -> MsgHttpError
      [] f = "errorCancelled" -> MsgHttpCancelled
      [] f = "unreadable" -> MsgUnreadable
      [] f = "empty" -> MsgEmpty
      [] OTHER -> NoError

\* C1: when analyzeFramesBatch returns, results has one entry per frame and entry i is
\* the analysis or the sentinel of frames[i]: same timestamp, and the error or the model
\* with which that frame's analyzeFrame settled
C1_BatchPreservesOrder ==
    /\ batch.returned =>
          /\ Len(batch.results) = Len(extractor.frames)
          /\ \A k \in 1..Len(extractor.frames) :
                /\ batch.results[k] # NoResult
                /\ batch.results[k].timestamp = extractor.frames[k]
    /\ (obs.step.caller = "batch" /\ obs.step.settled # "none") =>
          LET k == obs.step.frame + 1
          IN /\ k \in 1..Len(batch.results)
             /\ batch.results[k].timestamp = extractor.frames[k]
             /\ batch.results[k].error = obs.step.error
             /\ batch.results[k].modelUsed = obs.step.model

\* a batch of two frames returned, the first a sentinel and the second an analysis
C1_Witness ==
    /\ batch.returned
    /\ Len(batch.results) = 2
    /\ batch.results[1].error # NoError
    /\ batch.results[2].error = NoError

\* C2: the number of requests in flight stays within 0..concurrency, whatever calls
\* (batch frames or direct analyzeFrame calls) share the client
C2_ActiveWithinConcurrency ==
    client.activeRequests \in 0..Concurrency

\* C3: every HTTP request starts at least requestDelay after the previous request start
C3_RequestSpacing ==
    obs.step.started => obs.step.gap >= RequestDelay

\* C4: one frame never issues more than maxRetries x |models| requests; a 2xx with
\* content ends the call in the step that receives it; a call that fails for another
\* reason than credential, cancellation, reader or parsing has used the whole budget and
\* raises the error of its last exchange
C4_RetryBudget ==
    /\ \A c \in Callers : calls[c].requests <= Budget
    /\ obs.step.requests <= Budget
    /\ obs.step.response \in {"dull", "intense", "null"} =>
          obs.step.settled # "none" /\ ~obs.step.started
    /\ obs.step.settled = "returned" => obs.step.response \in {"dull", "intense"}
    /\ (obs.step.settled = "threw"
          /\ obs.step.error \notin {MsgCancelled, MsgAuthInvalid, MsgReader, MsgParse}) =>
          /\ obs.step.requests = Budget
          /\ obs.step.error = MsgOfFault(obs.step.lastFault)

\* a call failed after using its whole budget
C4_Witness ==
    /\ obs.step.settled = "threw"
    /\ obs.step.requests = Budget
    /\ obs.step.error \in {MsgRateLimited, MsgLoading, MsgTimeout, MsgHttpError, MsgEmpty}

\* C5: the allModelsBackoff sleep is taken only when every model answered 429 since the
\* round counter was last reset; 429 on M1, 429 on M2, 200 on M3 returns with model M3
\* (three requests leave no room for the sleep)
C5_AllModelsBackoffRound ==
    /\ \A c \in Callers : calls[c].pc = "backoffAll" => calls[c].limited = ModelSet
    /\ (obs.step.settled = "returned" /\ obs.step.requests = 3
          /\ obs.step.limited = {Models[1], Models[2]}) => obs.step.model = Models[3]

\* C6: a 401 makes the call raise the invalid-credential error in the same step, without
\* another request, without rotating the model index and without a sleep
C6_UnauthorizedFailsFast ==
    [][obs'.step.response = "401" =>
          /\ obs'.step.settled = "threw"
          /\ obs'.step.error = MsgAuthInvalid
          /\ ~obs'.step.started
          /\ client'.currentModelIndex = client.currentModelIndex
          /\ calls'[obs'.step.caller].pc \notin TimedPcs]_vars

\* a call was answered 401 on its third request and raised
C6_Witness ==
    /\ obs.step.response = "401"
    /\ obs.step.settled = "threw"
    /\ obs.step.requests = 3

\* C7: once a request received 401 the run is over with onError carrying the
\* invalid-credential message (no further vision request, no later stage)
C7_AuthInvalidTerminal ==
    (obs.authSeen /\ ~obs.cancelCalled) =>
        /\ pipeline.pc = "done"
        /\ Len(obs.errors) = 1
        /\ MsgAuthInvalid \in {obs.errors[1].text, obs.errors[1].detail}
        /\ obs.completeCalls = 0

\* C8: a failing frame leaves its sentinel (same timestamp, metadata.error = message) in
\* its slot, the next frame is analyzed unless the client was cancelled, and the batch
\* raises nothing but the cancellation error, and only when the client is cancelled
C8_FailureKeepsBatchGoing ==
    /\ (obs.step.caller = "batch" /\ obs.step.settled = "threw") =>
          LET k == obs.step.frame + 1
          IN /\ obs.step.error # NoError
             /\ k \in 1..Len(batch.results)
             /\ batch.results[k] = FrameAnalysis(extractor.frames[k], obs.step.error, "none", "")
             /\ (k < Len(extractor.frames) /\ ~client.cancelled) =>
                   /\ pipeline.pc = "analysis"
                   /\ batch.i = k
                   /\ calls["batch"].pc = "b64"
    /\ obs.raised # "none" => client.cancelled /\ obs.raised = MsgAnalysisCancelled

\* the first of two frames failed and the second is being analyzed
C8_Witness ==
    /\ obs.step.caller = "batch"
    /\ obs.step.settled = "threw"
    /\ obs.step.frame = 0
    /\ Len(extractor.frames) = 2
    /\ calls["batch"].pc = "b64"

\* C9: stages are entered in the fixed order, a completed run went through all of them,
\* vision requests exist only once every frame is sampled, direct() runs only once every
\* slot is filled, and the toolchain is used only after direct() returned
C9_StageOrder ==
    /\ IsPrefix(obs.stages, StageOrder)
    /\ obs.completeCalls > 0 => obs.stages = StageOrder
    /\ pipeline.pc \in ExtractPcs =>
          calls["batch"].pc = "idle" /\ obs.stages = <<"frame_extraction">>
    /\ calls["batch"].pc # "idle" =>
          /\ pipeline.pc = "analysis"
          /\ LastStage = "ai_analysis"
          /\ Len(extractor.frames) = ExpectedFrames(extractor.duration)
    /\ Entered("clip_detection") =>
          /\ batch.returned
          /\ calls["batch"].pc = "idle"
          /\ Len(batch.results) = Len(extractor.frames)
          /\ \A k \in 1..Len(batch.results) : batch.results[k] # NoResult
    /\ pipeline.pc \in ToolchainPcs =>
          /\ LastStage = "video_generation"
          /\ batch.returned
          /\ Len(pipeline.validAnalyses) > 0

\* a run over two frames completed
C9_Witness ==
    /\ obs.completeCalls = 1
    /\ Len(extractor.frames) = 2
    /\ pipeline.pc = "done"

\* C10: once cancel() was called during a run, onComplete is never invoked and
\* resultBlob / resultStats stay null
C10_NoOutputAfterCancel ==
    obs.cancelCalled =>
        /\ obs.completeCalls = 0
        /\ pipeline.resultBlob = "null"
        /\ pipeline.resultStats = "null"

\* cancel() came while the toolchain was finishing; assemble() still returned its blob
C10_Witness ==
    /\ obs.cancelCalled
    /\ pipeline.pc = "done"
    /\ obs.cancelLogged
    /\ obs.lastProgress = 100
    /\ OutputFile \notin assembler.files
    /\ assembler.concats = 1
\* positions of run() inside VideoAssembler.assemble()
AssemblePcs == {"va_buffer", "va_writeInput", "va_cut", "va_writeList", "va_concat",
                "va_readOut", "va_cleanup"}

\* C11: once cancel() was called during a run, that run never invokes onError
C11_CancelIsSilent ==
    obs.cancelCalled => Len(obs.errors) = 0

\* C12: once the vision client is cancelled no HTTP request is started: a step that
\* issues a fetch runs on a client that is not cancelled
C12_NoRequestAfterCancel ==
    obs.step.started => ~client.cancelled

\* a call that had already issued a request found the client cancelled when its retry
\* iteration began, and raised 'Cancelled' instead of fetching again
C12_Witness ==
    /\ client.cancelled
    /\ obs.step.settled = "threw"
    /\ obs.step.error = MsgCancelled
    /\ obs.step.requests >= 1
    /\ ~obs.step.started

\* C13: once cancel() was called during assemble(), no cut and no concat is started
C13_NoToolchainCallAfterCancel ==
    [][(assembler.cancelled /\ pipeline.pc \in AssemblePcs) =>
          /\ assembler'.cuts = assembler.cuts
          /\ assembler'.concats = assembler.concats]_vars
\* C14: a run waiting for a seek does not wait forever: when neither 'seeked' nor 'error'
\* is signalled, extractFrames still fails and the run leaves the seek
C14_SeekDoesNotHang ==
    (pipeline.pc = "ex_seek") ~> (pipeline.pc # "ex_seek")
\* C15: when a cut or the concat finished with a non-zero exit status, assemble() has
\* failed: the run is over, without blob and without onComplete, and (unless it was
\* cancelled) with onError
C15_NonZeroExitFailsAssembly ==
    obs.execFailed =>
        /\ pipeline.pc = "done"
        /\ obs.completeCalls = 0
        /\ pipeline.resultBlob = "null"
        /\ obs.cancelCalled \/ Len(obs.errors) = 1

\* C16: when the clamp leaves no clip, the run ends with the no-highlights error and the
\* toolchain is neither loaded nor asked to assemble
C16_EmptyClampIsNoHighlights ==
    (Entered("video_generation") /\ Len(pipeline.clips) = 0) =>
        /\ pipeline.pc = "done"
        /\ obs.errors = <<Err(MsgNoHighlights, NoError)>>
        /\ ~assembler.loaded
\* C20: the assembler works through L = the hook (when there is one) followed by the clips
\* handed to assemble(), verbatim: the k-th cut issued is of the k-th element of L, with that
\* element's start and duration, into the file clip_(k-1); the concat is issued at most once
\* and only when every element of L has been cut and every cut has completed, and its
\* manifest lists clip_0 .. clip_(|L|-1) in that order
C20_AssemblerFollowsList ==
    LET L == pipeline.hookClip \o pipeline.clips
    IN /\ Len(assembler.cuts) <= Len(L)
       /\ \A k \in 1..Len(assembler.cuts) :
              assembler.cuts[k] = [file |-> ClipFile(k - 1), start |-> L[k].start,
                                   duration |-> L[k].end - L[k].start]
       /\ assembler.concats <= 1
       /\ assembler.concats = 1 =>
              /\ Len(assembler.cuts) = Len(L)
              /\ assembler.i = Len(L)
              /\ assembler.manifest = [k \in 1..Len(L) |-> ClipFile(k - 1)]

\* the concat was issued for a hook followed by a clip
C20_Witness ==
    /\ assembler.concats = 1
    /\ Len(pipeline.hookClip) = 1
    /\ Len(pipeline.clips) >= 1
    /\ Len(assembler.cuts) = 1 + Len(pipeline.clips)

\* timeRange.overlaps(other)
overlaps(a, b) == a.start < b.end /\ b.start < a.end

\* the group optimizePacing puts a clip in
PacingGroup(c) == IF c.actionIntensity \in {"very_high", "high"} THEN "high" ELSE c.actionIntensity

\* none of the analyses has for its actionIntensity a name that the score table of
\* scoreClips inherits from Object.prototype ('constructor', 'toString', ...), so that
\* every composition score is a number
NumberScores(analyses) ==
    \A k \in 1..Len(analyses) : fieldsOf(analyses[k]).actionIntensity \notin InheritedNames

\* of two clips of the same pacing group the earlier one scores at least as much as the
\* later one
GroupScoreOrdered(clips) ==
    \A i, j \in 1..Len(clips) :
        (i < j /\ PacingGroup(clips[i]) = PacingGroup(clips[j]))
            => geq(clips[i].score, clips[j].score)

\* C17: once run() is past the clamp, every clip it kept and the hook, when kept, satisfy
\* 0 <= start < end <= media duration and last at least 0.5 s; and no TimeRange was
\* rejected, in direct() or in the clamp: what cannot satisfy this was dropped
C17_ClampedWithinMedia ==
    /\ \A k \in 1..Len(obs.errors) : obs.errors[k].text # MsgInvalidRange
    /\ Entered("video_generation") =>
          LET kept == pipeline.clips \o pipeline.hookClip
          IN \A k \in 1..Len(kept) :
                 /\ kept[k].ok
                 /\ 0 <= kept[k].start
                 /\ kept[k].start < kept[k].end
                 /\ kept[k].end <= extractor.duration
                 /\ kept[k].end - kept[k].start >= MinClamped

\* the clamp cut the 5 s clip of the last frame at the end of the media and kept it, the
\* hook and another clip
C17_Witness ==
    /\ Entered("video_generation")
    /\ Len(pipeline.clips) >= 2
    /\ Len(pipeline.hookClip) = 1
    /\ \E k \in 1..Len(pipeline.clips) :
          /\ pipeline.clips[k].clipType = "high_excitement"
          /\ pipeline.clips[k].start > 0
          /\ pipeline.clips[k].end = extractor.duration
          /\ pipeline.clips[k].end - pipeline.clips[k].start < 320

\* C18: the clips handed to assemble() are pairwise non-overlapping
C18_ClipsDoNotOverlap ==
    pipeline.pc \in AssemblePcs =>
        \A i, j \in 1..Len(pipeline.clips) :
            i # j => ~overlaps(pipeline.clips[i], pipeline.clips[j])

\* assemble() was given three clips or more, one of them a merged multi-kill clip cut down
\* to the maximal clip length, another a 10 s clutch clip trimmed to 7 s
C18_Witness ==
    /\ pipeline.pc \in AssemblePcs
    /\ Len(pipeline.clips) >= 3
    /\ \E k \in 1..Len(pipeline.clips) :
          /\ pipeline.clips[k].clipType = "multi_kill"
          /\ pipeline.clips[k].end - pipeline.clips[k].start = MaxClipLength
    /\ \E k \in 1..Len(pipeline.clips) :
          /\ pipeline.clips[k].clipType = "clutch"
          /\ pipeline.clips[k].end < extractor.duration
          /\ pipeline.clips[k].end - pipeline.clips[k].start = 448

\* C19 as stated: the clips handed to assemble() are sorted by start time ascending
C19_SortedByStart ==
    pipeline.pc \in AssemblePcs =>
        \A k \in 1..(Len(pipeline.clips) - 1) :
            pipeline.clips[k].start <= pipeline.clips[k + 1].start

\* C19 amended: the clips handed to assemble() are in the pacing order, whatever their
\* start times: when there are more than two clips, each is of a known intensity, at most
\* two are low, and no low clip comes before a clip that is not low; and when no valid
\* analysis has an inherited name for its intensity, of two clips of the same pacing
\* group the earlier one scores at least as much as the later one
C19_PacingOrder ==
    pipeline.pc \in AssemblePcs =>
        LET clips == pipeline.clips
        IN /\ NumberScores(pipeline.validAnalyses) => GroupScoreOrdered(clips)
           /\ Len(clips) > 2 =>
                  /\ \A k \in 1..Len(clips) : PacingGroup(clips[k]) \in {"high", "medium", "low"}
                  /\ Cardinality({k \in 1..Len(clips) : PacingGroup(clips[k]) = "low"}) <= 2
                  /\ \A i, j \in 1..Len(clips) :
                         (i < j /\ PacingGroup(clips[i]) = "low") => PacingGroup(clips[j]) = "low"

\* assemble() was given high and medium clips, three or more, a later one starting before
\* an earlier one and two of a group with different scores (every score a number)
C19_Witness ==
    /\ pipeline.pc \in AssemblePcs
    /\ NumberScores(pipeline.validAnalyses)
    /\ Len(pipeline.clips) >= 3
    /\ \E i, j \in 1..Len(pipeline.clips) :
          /\ i < j
          /\ PacingGroup(pipeline.clips[i]) = PacingGroup(pipeline.clips[j])
          /\ pipeline.clips[i].score > pipeline.clips[j].score
    /\ \E i, j \in 1..Len(pipeline.clips) :
          /\ i < j
          /\ pipeline.clips[j].start < pipeline.clips[i].start
          /\ PacingGroup(pipeline.clips[i]) = "high"
          /\ PacingGroup(pipeline.clips[j]) = "medium"

\* C21: whatever the list of seed clips, the clips mergeOverlappingClips returns are
\* sorted by start and strictly separated: each one starts after the end of every clip
\* before it in the list
C21_MergedAreSeparated ==
    director.op = "mergeOverlappingClips" =>
        \A i, j \in 1..Len(director.out) :
            i < j => director.out[j].start > director.out[i].end

\* mergeOverlappingClips was given three seeds out of start order, folded two of them into
\* one and returned two clips
C21_Witness ==
    /\ director.op = "mergeOverlappingClips"
    /\ Len(director.clips) = 3
    /\ Len(director.out) = 2
    /\ \E k \in 1..2 : director.clips[k].start > director.clips[k + 1].start

\* the seeds (by index) whose range lies inside the range of a merged clip
Absorbed(seeds, merged) ==
    {k \in 1..Len(seeds) : seeds[k].start >= merged.start /\ seeds[k].end <= merged.end}

\* C22: every seed handed to mergeOverlappingClips lies inside one of the clips returned;
\* each clip returned spans from the least start to the greatest end of the seeds inside
\* it, has the greatest priority among them, and has the type and the label of a seed of
\* that priority (also when a chain of more than two seeds was folded); and A = [10,18] of
\* priority 7 with B = [15,25] of priority 10 gives B alone with the range [10,25]
C22_MergedSpanAndIdentity ==
    director.op = "mergeOverlappingClips" =>
        LET seeds == director.clips
            out == director.out
            A == Clip(640, 1152, "high_excitement", "INTENSE", 7, 70, "low", randomUUID(1))
            B == Clip(960, 1600, "multi_kill", "DOUBLE KILL", 10, 90, "low", randomUUID(2))
        IN /\ \A k \in 1..Len(seeds) : \E m \in 1..Len(out) : k \in Absorbed(seeds, out[m])
           /\ \A m \in 1..Len(out) :
                 LET in == Absorbed(seeds, out[m])
                 IN /\ in # {}
                    /\ \E k \in in : seeds[k].start = out[m].start
                    /\ \A k \in in : seeds[k].start >= out[m].start
                    /\ \E k \in in : seeds[k].end = out[m].end
                    /\ \A k \in in : seeds[k].end <= out[m].end
                    /\ \A k \in in : seeds[k].priority <= out[m].priority
                    /\ \E k \in in : /\ seeds[k].priority = out[m].priority
                                      /\ seeds[k].clipType = out[m].clipType
                                      /\ seeds[k].label = out[m].label
                                      /\ seeds[k].id = out[m].id
           /\ seeds = <<A, B>> => out = <<[B EXCEPT !.start = 640]>>

\* a chain of three seeds was folded into one clip, the seed of the greatest priority
\* being neither the first nor the second in start order
C22_Witness ==
    /\ director.op = "mergeOverlappingClips"
    /\ Len(director.clips) = 3
    /\ Len(director.out) = 1
    /\ director.out[1].start = 640
    /\ director.out[1].end = 1920
    /\ \E k \in 1..3 : /\ director.clips[k].start = 1600
                        /\ director.clips[k].priority = 10
                        /\ \A j \in 1..3 : j # k => director.clips[j].priority < 10

\* the clips are in descending order of score
ScoreOrdered(clips) == \A k \in 1..(Len(clips) - 1) : clips[k].score >= clips[k + 1].score

\* C23: for a score-ordered list, trimToTargetDuration returns a prefix of it whose total
\* duration is at most targetDuration; only the last clip returned may differ from the
\* input, and then it has the same start, an earlier end, at least minClipLength, and
\* fills the target exactly; when clips are left out and the last one returned is whole,
\* the next clip would overflow and less than minClipLength remained for it; and a list
\* that fits the target is returned whole
C23_TrimIsBoundedPrefix ==
    (director.op = "trimToTargetDuration" /\ ScoreOrdered(director.clips)) =>
        LET given == director.clips
            out == director.out
            n == Len(out)
        IN /\ n <= Len(given)
           /\ SumDurations(out) <= TargetDuration
           /\ \A k \in 1..(n - 1) : out[k] = given[k]
           /\ n > 0 =>
                 \/ out[n] = given[n]
                 \/ /\ out[n] = [given[n] EXCEPT !.end = out[n].end]
                    /\ out[n].end < given[n].end
                    /\ out[n].end - out[n].start >= MinClipLength
                    /\ SumDurations(out) = TargetDuration
           /\ (n < Len(given) /\ (n = 0 \/ out[n] = given[n])) =>
                 /\ SumDurations(out) + (given[n + 1].end - given[n + 1].start) > TargetDuration
                 /\ TargetDuration - SumDurations(out) < MinClipLength
           /\ SumDurations(given) <= TargetDuration => out = given

\* trimToTargetDuration shortened the clip that overflowed to a head-slice and left out
\* the clip after it
C23_Witness ==
    /\ director.op = "trimToTargetDuration"
    /\ ScoreOrdered(director.clips)
    /\ Len(director.out) > 0
    /\ Len(director.out) < Len(director.clips)
    /\ director.out[Len(director.out)].end < director.clips[Len(director.out)].end
    /\ director.out[Len(director.out)].start = director.clips[Len(director.out)].start

\* the pacing pattern: a high (or very_high) clip first when there is one; medium and
\* high clips alternate, two clips of one of these groups being adjacent only when none of
\* the other group follows; the low clips come last and are at most two
PacingPattern(clips) ==
    LET n == Len(clips)
        g == <<>> \o [k \in 1..n |-> PacingGroup(clips[k])]
    IN /\ (\E k \in 1..n : g[k] = "high") => g[1] = "high"
       /\ \A k \in 1..(n - 1) :
             /\ (g[k] = "medium" /\ g[k + 1] = "medium") => \A j \in (k + 1)..n : g[j] # "high"
             /\ (g[k] = "high" /\ g[k + 1] = "high") => \A j \in (k + 1)..n : g[j] # "medium"
       /\ \A i, j \in 1..n : (i < j /\ g[i] = "low") => g[j] = "low"
       /\ Cardinality({k \in 1..n : g[k] = "low"}) <= 2

\* the pacing order: the pacing pattern, and inside a group the scores do not increase
PacingOrdered(clips) ==
    /\ PacingPattern(clips)
    /\ \A i, j \in 1..Len(clips) :
           (i < j /\ PacingGroup(clips[i]) = PacingGroup(clips[j]))
               => clips[i].score >= clips[j].score

\* out holds, in the order of given, the high clips of given, its medium clips and its
\* first two low clips, and nothing else
PacedFrom(given, out) ==
    LET group(s, name) == SelectSeq(s, LAMBDA c : PacingGroup(c) = name)
        lows == group(given, "low")
    IN /\ group(out, "high") = group(given, "high")
       /\ group(out, "medium") = group(given, "medium")
       /\ group(out, "low") = SubSeq(lows, 1, Min(2, Len(lows)))
       /\ Len(out) = Len(group(out, "high")) + Len(group(out, "medium")) + Len(group(out, "low"))

\* C24 as stated: the clips direct() emits, and the clips optimizePacing returns for a
\* score-ordered list, are in the pacing order
C24_AlwaysPacingOrder ==
    /\ director.op = "direct" =>
          \A r \in 1..Len(director.results) : PacingOrdered(director.results[r].clips)
    /\ (director.op = "optimizePacing" /\ ScoreOrdered(director.clips)) =>
          /\ PacingOrdered(director.out)
          /\ PacedFrom(director.clips, director.out)

\* C24 amended: when more than two clips are admitted, direct() emits them in the pacing
\* pattern (intensities high, high, medium, medium, low give high, medium, high, medium,
\* low); when no analysis has an inherited name for its intensity, the scores do not
\* increase inside a group, and one or two emitted clips are in score order (as admitted)
\* or in the pacing pattern (what is left of more than two admitted clips, those of an
\* unknown intensity being dropped); optimizePacing returns a list of at most two clips as
\* it is
C24_PacingOrderAboveTwo ==
    /\ director.op = "direct" =>
          \A r \in 1..Len(director.results) :
              LET clips == director.results[r].clips
              IN /\ Len(clips) > 2 => PacingPattern(clips)
                 /\ NumberScores(director.analyses) =>
                        /\ GroupScoreOrdered(clips)
                        /\ Len(clips) <= 2 => (ScoreOrdered(clips) \/ PacingPattern(clips))
    /\ (director.op = "optimizePacing" /\ ScoreOrdered(director.clips)) =>
          LET given == director.clips
              out == director.out
          IN /\ Len(given) <= 2 => out = given
             /\ Len(given) > 2 => PacingOrdered(out) /\ PacedFrom(given, out)
             /\ (/\ Len(given) = 5
                 /\ \A k \in {1, 2} : given[k].actionIntensity = "high"
                 /\ \A k \in {3, 4} : given[k].actionIntensity = "medium"
                 /\ given[5].actionIntensity = "low")
                    => out = <<given[1], given[3], given[2], given[4], given[5]>>

\* direct() emitted more than two clips, a high one, a medium one and a high one first,
\* the third one starting before the second (every score a number)
C24_Witness ==
    /\ director.op = "direct"
    /\ NumberScores(director.analyses)
    /\ \E r \in 1..Len(director.results) :
          LET clips == director.results[r].clips
          IN /\ Len(clips) > 2
             /\ PacingGroup(clips[1]) = "high"
             /\ PacingGroup(clips[2]) = "medium"
             /\ PacingGroup(clips[3]) = "high"
             /\ clips[3].start < clips[2].start

\* C25: two invocations of direct() on the same analyses return the same clips, in the
\* same order and with every field equal (range, type, label, priority, score, intensity,
\* id), and the same hook
C25_DirectIsDeterministic ==
    Len(director.results) = 2 =>
        /\ director.results[1].clips = director.results[2].clips
        /\ director.results[1].hookClip = director.results[2].hookClip

\* C26: when run() has returned, by success, failure or cancel, the object URL that
\* extractFrames created is revoked and no file that assemble() wrote is left in the
\* virtual filesystem of the toolchain
C26_ResourcesReleased ==
    pipeline.pc = "done" => (~extractor.urlOpen /\ assembler.files = {})

\* the band of progress values of a stage
Band(stage) ==
    CASE stage = "frame_extraction" -> 0..25
      [] stage = "ai_analysis" -> 25..60
      [] stage = "clip_detection" -> 60..75
      [] stage = "video_generation" -> 75..100
      [] OTHER -> 0..100

\* C27: every progress event lies in the band of its stage (frame_extraction 0..25,
\* ai_analysis 25..60, clip_detection 60..75, video_generation 75..100), and its progress
\* is within 0..100
C27_ProgressInBand ==
    \A e \in obs.events : e[2] \in Band(e[1]) /\ e[2] \in 0..100

\* a run emitted progress inside each of the four bands, not only at their ends, and
\* completed
C27_Witness ==
    /\ obs.completeCalls = 1
    /\ \E e \in obs.events : e[1] = "frame_extraction" /\ e[2] \in 1..24
    /\ \E e \in obs.events : e[1] = "ai_analysis" /\ e[2] \in 26..59
    /\ \E e \in obs.events : e[1] = "clip_detection" /\ e[2] \in 61..74
    /\ \E e \in obs.events : e[1] = "video_generation" /\ e[2] \in 76..99

\* C28: when extractFrames has returned the frames of a media of positive duration, there
\* are exactly min(maxFrames, floor(duration / intervalSeconds) + 1) of them, at least one
\* and at most maxFrames, the k-th one sampled at (k - 1) * intervalSeconds, which is at
\* most the duration; a media shorter than the interval gives the single frame at 0
C28_FrameCountAndTimes ==
    (Entered("ai_analysis") /\ extractor.duration > 0) =>
        LET frames == extractor.frames
            n == Len(frames)
            byInterval == (extractor.duration \div Interval) + 1
        IN /\ n = (IF byInterval < MaxFrames THEN byInterval ELSE MaxFrames)
           /\ n >= 1
           /\ n <= MaxFrames
           /\ \A k \in 1..n : frames[k] = (k - 1) * Interval /\ frames[k] <= extractor.duration
           /\ \A k \in 1..(n - 1) : frames[k] < frames[k + 1]
           /\ Interval > extractor.duration => frames = <<0>>

\* extractFrames returned maxFrames frames of a media that spans more intervals
C28_Witness ==
    /\ Entered("ai_analysis")
    /\ extractor.duration > MaxFrames * Interval
    /\ Len(extractor.frames) = MaxFrames
    /\ extractor.frames[MaxFrames] = (MaxFrames - 1) * Interval

\* C29: the excitementScore of every analysis analyzeExcitementLevels returns is at least
\* 0, whatever the kill log, kill count, intensity, match status, enemies and confidence
C29_ExcitementNonNegative ==
    director.op = "analyzeExcitementLevels" =>
        \A k \in 1..Len(director.out) : atLeast(director.out[k].excitementScore, 0)

\* the sum of the table of Phase 1 for the fields f
TableSum(f) ==
    LET points(table, key) == IF key \in DOMAIN table THEN table[key] ELSE 0
    IN (IF f.killLog /\ f.killCount >= 3 THEN 25 + 15
        ELSE IF f.killLog /\ f.killCount = 2 THEN 25 + 8
        ELSE IF f.killLog THEN 25 ELSE 0)
       + points([very_high |-> 25, high |-> 18, medium |-> 10, low |-> 0], f.actionIntensity)
       + points([victory |-> 10, clutch |-> 20, overtime |-> 12, defeat |-> -5, normal |-> 0],
                f.matchStatus)
       + (IF f.enemyVisible /\ f.enemyCount >= 3 THEN 10 + 5
          ELSE IF f.enemyVisible THEN 10 ELSE 0)

\* the intensity and the status of the fields are rows of the tables, or names the tables
\* neither hold nor inherit
Tabled(f) == f.actionIntensity \notin InheritedNames /\ f.matchStatus \notin InheritedNames

\* C30: the excitementScore analyzeExcitementLevels gives an analysis is the sum of the
\* table, multiplied by 0.5 + 0.5 * confidence when the confidence is positive and left as
\* it is when the confidence is 0 (scores in 1/200, confidence in percent), for every
\* intensity and status of the table and every name that counts 0; a kill log of 3
\* kills, high intensity, clutch, 3 visible enemies and confidence 1 give 93
C30_ExcitementIsTableSum ==
    director.op = "analyzeExcitementLevels" =>
        \A k \in 1..Len(director.out) :
            LET f == fieldsOf(director.analyses[k])
                score == director.out[k].excitementScore
            IN Tabled(f) =>
                  /\ f.confidence > 0 => score = Num(TableSum(f) * (100 + f.confidence))
                  /\ f.confidence = 0 => score = Num(TableSum(f) * 200)
                  /\ f = [killLog |-> TRUE, killCount |-> 3, actionIntensity |-> "high",
                          matchStatus |-> "clutch", enemyVisible |-> TRUE, enemyCount |-> 3,
                          confidence |-> 100] => score = Num(93 * 200)

\* analyzeExcitementLevels scored a frame of confidence 0 and of a sum that is not 0
C30_Witness ==
    /\ director.op = "analyzeExcitementLevels"
    /\ \E k \in 1..Len(director.out) :
          /\ director.out[k].confidence = 0
          /\ director.out[k].killLog
          /\ director.out[k].killCount = 3
          /\ director.out[k].matchStatus = "clutch"
          /\ director.out[k].actionIntensity = "low"
          /\ director.out[k].excitementScore = Num(60 * 200)

\* C31: the stats a completed run hands to onComplete carry the engagement computed from
\* the Phase-1 excitement scores of the valid analyses: avgExcitement is the mean of their
\* positive scores, non-zero whenever some valid analysis has a positive excitement
C31_StatsCarryPhase1Excitement ==
    obs.completeCalls > 0 =>
        LET enhanced == analyzeExcitementLevels(pipeline.validAnalyses)
            engagement == pipeline.resultStats.engagement
        IN /\ engagement = predictEngagement(pipeline.clips, enhanced)
           /\ (\E k \in 1..Len(enhanced) : above(enhanced[k].excitementScore, 0))
                  => engagement.excitementSum > 0

\* C32: a quality value lies in 0..100, its grade is A from 90, B from 80, C from 70,
\* D from 60 and F below, and the grade the result view shows for the value
\* (getQualityGrade) is the grade QualityScore.grade gives it
C32_ShownGradeIsGrade ==
    director.op = "grade" =>
        LET q == director.out[1]
        IN /\ q.value \in 0..100
           /\ q.grade = (IF q.value >= 90 THEN "A" ELSE IF q.value >= 80 THEN "B"
                         ELSE IF q.value >= 70 THEN "C" ELSE IF q.value >= 60 THEN "D"
                         ELSE "F")
           /\ q.shown = q.grade

\* the timestamps of the kill logs among the analyses
KillTimes(analyses) ==
    {analyses[k].timestamp : k \in {i \in 1..Len(analyses) : analyses[i].killLog}}

\* C33: detectMultiEvents partitions the sorted kill timestamps into runs, each run being
\* the kills within 10 s of its first kill, and emits one event exactly for every run of
\* two or more kills: timestamp the first and endTimestamp the last kill of the run,
\* killCount the size of the run, type DOUBLE KILL, TRIPLE KILL, QUAD KILL or ACE for 2,
\* 3, 4 and 5 or more; no kill belongs to two events
C33_EventsAreKillRuns ==
    director.op = "detectMultiEvents" =>
        LET kills == KillTimes(director.analyses)
            events == director.out
            Members(e) == {t \in kills : e.timestamp <= t /\ t <= e.endTimestamp}
            Covered == UNION {Members(events[k]) : k \in 1..Len(events)}
        IN /\ \A k \in 1..Len(events) :
                 LET e == events[k]
                 IN /\ e.timestamp \in kills
                    /\ e.endTimestamp \in kills
                    /\ e.endTimestamp - e.timestamp <= TimeWindow
                    /\ e.killCount = Cardinality(Members(e))
                    /\ e.killCount >= 2
                    /\ ~\E t \in kills : e.endTimestamp < t /\ t <= e.timestamp + TimeWindow
                    /\ e.type = (IF e.killCount = 2 THEN "DOUBLE KILL"
                                 ELSE IF e.killCount = 3 THEN "TRIPLE KILL"
                                 ELSE IF e.killCount = 4 THEN "QUAD KILL" ELSE "ACE")
           /\ \A k \in 1..(Len(events) - 1) : events[k].endTimestamp < events[k + 1].timestamp
           /\ \A t \in kills \ Covered : ~\E u \in kills : t < u /\ u <= t + TimeWindow

\* scenario S2: kills at 10, 13, 18 and 30 s give one TRIPLE KILL from 10 s to 18 s and
\* nothing at 30 s
C33_Witness ==
    /\ director.op = "detectMultiEvents"
    /\ KillTimes(director.analyses) = {640, 832, 1152, 1920}
    /\ director.out = <<[type |-> "TRIPLE KILL", timestamp |-> 640, killCount |-> 3,
                         endTimestamp |-> 1152]>>

\* the clip is one of maximal score among the clips: when some score is a number, its
\* score is one and no number among the scores is above it
IsBest(clips, i) ==
    \/ \A j \in 1..Len(clips) : clips[j].score = NaN
    \/ /\ clips[i].score # NaN
       /\ \A j \in 1..Len(clips) : clips[j].score # NaN => clips[i].score >= clips[j].score

\* the hook is the 3 s range around the midpoint of the clip, and lies inside the clip
HookOf(h, c) ==
    /\ 2 * h.start = c.start + c.end - 2 * HookHalf
    /\ 2 * h.end = c.start + c.end + 2 * HookHalf
    /\ h.end - h.start = 2 * HookHalf
    /\ c.start <= h.start
    /\ h.end <= c.end
    /\ h.clipType = "hook"
    /\ h.ok

\* C34: direct() returns a hook exactly when its clip list is not empty, and the hook is
\* the range [mid - 1.5 s, mid + 1.5 s] around the midpoint of a highest-scored clip of
\* the list: 3 s long, inside that clip, of clipType hook
C34_HookAroundBestClip ==
    \A r \in 1..Len(director.results) :
        LET result == director.results[r]
        IN /\ Len(result.hookClip) = (IF Len(result.clips) > 0 THEN 1 ELSE 0)
           /\ Len(result.clips) > 0 =>
                  \E i \in 1..Len(result.clips) :
                      /\ HookOf(result.hookClip[1], result.clips[i])
                      /\ IsBest(result.clips, i)

\* C35: every clip direct() emits, the hook included, lasts at least minClipLength and at
\* most maxClipLength (3 s and 15 s), clips that start at 0, clips cut down from a longer
\* merged range and the slice left by the trim to the target duration included
C35_EmittedDurationsInRange ==
    \A r \in 1..Len(director.results) :
        LET emitted == director.results[r].clips \o director.results[r].hookClip
        IN \A k \in 1..Len(emitted) :
               /\ emitted[k].end - emitted[k].start >= MinClipLength
               /\ emitted[k].end - emitted[k].start <= MaxClipLength

\* direct() returned a clip [0 s, 3 s] whose seed was floored at 0 together with a clip
\* of the maximal length
C35_Witness ==
    /\ Len(director.results) > 0
    /\ LET clips == director.results[1].clips
       IN /\ \E k \in 1..Len(clips) :
                 clips[k].start = 0 /\ clips[k].end = MinClipLength
          /\ \E k \in 1..Len(clips) : clips[k].end - clips[k].start = MaxClipLength

\* C36: a run on which cancel() is never called ends with exactly one call of exactly one
\* of onComplete and onError, whatever made it fail and also when onComplete raises, and
\* no progress event follows that call
C36_ExactlyOneTerminalCallback ==
    ~obs.cancelCalled =>
        /\ obs.completeCalls + Len(obs.errors) <= 1
        /\ pipeline.pc = "done" => obs.completeCalls + Len(obs.errors) = 1
        /\ ~obs.lateProgress

\* C37: no progress event of a run carries a progress value below the value of the event
\* before it, whatever the number of frames and of clips
C37_ProgressNonDecreasing == ~obs.regressed

\* the number of places of the list that hold the clip of the given id
Occurrences(clips, id) == Cardinality({k \in 1..Len(clips) : clips[k].id = id})

\* the place of the clip among the low-intensity clips of the list, 0 for any other clip
LowRank(clips, k) ==
    IF clips[k].actionIntensity # "low" THEN 0
    ELSE Cardinality({j \in 1..k : clips[j].actionIntensity = "low"})

\* C38: optimizePacing returns clips of its input, none of them twice, and loses only
\* the low-intensity clips after the second one, whatever the actionIntensity of the
\* clips: a list that is not empty does not become empty
C38_PacingLosesOnlyLateLows ==
    director.op = "optimizePacing" =>
        LET given == director.clips
            out == director.out
        IN /\ \A k \in 1..Len(out) :
                 /\ Occurrences(out, out[k].id) = 1
                 /\ \E j \in 1..Len(given) : given[j] = out[k]
           /\ \A k \in 1..Len(given) :
                 LowRank(given, k) <= 2 => Occurrences(out, given[k].id) = 1
           /\ Len(given) > 0 => Len(out) > 0

\* C39: every clip direct() emits has a composition score of 0 to 25 (the seed scores 90,
\* 80 and 70 are replaced), below the threshold 30 of suggestImprovements, and every
\* result with a clip carries the suggestion about many low-scoring clips
C39_ScoresBelowThreshold ==
    \A r \in 1..Len(director.results) :
        LET result == director.results[r]
        IN /\ \A k \in 1..Len(result.clips) :
                 /\ result.clips[k].score \in 0..25
                 /\ less(result.clips[k].score, LowScore)
           /\ Len(result.clips) > 0 =>
                  \E k \in 1..Len(result.suggestions) :
                      result.suggestions[k] = SuggestLowScores

\* C40: every run in progress (executing, not cancelled) is the one activePipeline refers
\* to, so that at most one run is in progress, and no terminal callback of a pipeline
\* runs while another pipeline is in progress
C40_OneRunWithHandle ==
    /\ \A p \in 1..Len(page.runs) : InProgress(page, p) => page.activePipeline = p
    /\ ~page.intruded
====
